---------------------------- MODULE Spec2Model ----------------------------
(***************************************************************************)
(* Model of the ship editor (src/editor.js) and of the part of the preset  *)
(* catalog it reads (the ships.js block of src/index.html).                *)
(*                                                                         *)
(* Numbers.  JavaScript numbers are modelled by exact arithmetic:          *)
(*   - a vertex coordinate c (shape-relative units) is the integer         *)
(*     c * CoordUnit, so 0.1 is 4 and straightenThreshold 0.2 is 8;        *)
(*   - a stroke weight w is the integer w * WeightUnit;                    *)
(*   - baseDisplaySize is anchor * (6/5)^exp, kept as [anchor, exp]: the   *)
(*     value zoomFactor = 1.2 produces from 350 or from a clamp boundary;  *)
(*   - a pointer position is kept relative to the canvas centre and in     *)
(*     units of interaction_r / CoordUnit pixels, so that pixel / r lands  *)
(*     on the coordinate grid.  Pixel thresholds (grabRadius, ...) are     *)
(*     compared exactly, as fractions, against interaction_r.              *)
(* Array indices are the 0-based JavaScript indices; a TLA+ sequence holds *)
(* element i at position i + 1.                                            *)
(***************************************************************************)
EXTENDS Integers, Sequences, FiniteSets, TLC

-----------------------------------------------------------------------------
(* Units of the number model *)

CoordUnit == 4 * 10
WeightUnit == 10 * 10

-----------------------------------------------------------------------------
(* Program constants *)

maxHistorySize == 30
canvasWidth == 600
canvasHeight == 450
initialBaseDisplaySize == 350
minBaseDisplaySize == 50
maxBaseDisplaySize == 2000
zoomFactorNum == 6
zoomFactorDen == 5
grabRadius == 10
edgeClickMinDist == 15
straightenThreshold == 8
blankDrawSize == 50

NULL == "null"
SelectPrompt == "Select a Ship..."
NewBlank == "--- New Blank ---"

-----------------------------------------------------------------------------
(* Bounds of the exploration *)

\* Spec: events explored from the initial state
MaxEvents == 5
\* Spec: zoom levels explored together with pointer events, exp in 0 .. MaxZoomExp
MaxZoomExp == 1
\* SpecHistory: events explored from the initial state
MaxHistoryEvents == 37
\* SpecAnyOrder: events explored from the initial state
MaxAnyOrderEvents == 4
\* SpecPointer: events explored from the initial state, and zoom levels
MaxPointerEvents == 6
MaxPointerZoomExp == 3

-----------------------------------------------------------------------------
(* The preset catalog (ships.js): the entries the model keeps.  Anaconda is  *)
(* the largest entry of the catalog, so maxDefinedShipSize is the real one. *)
(* A missing colour is << >> and a missing strokeW is 0: both are falsy in  *)
(* the `x || default` expressions that read them.                           *)

V(x, y) == [x |-> x, y |-> y]

Catalog ==
    [ Sidewinder |->
        [ name |-> "Sidewinder", size |-> 20,
          vertexData |-> << V(36, 0), V(-28, 32), V(-36, 0), V(-28, -32) >>,
          fillColor |-> << 180, 100, 20 >>, strokeColor |-> << 220, 150, 50 >>,
          strokeW |-> 100 ],
      GnatInterceptor |->
        [ name |-> "Gnat Interceptor", size |-> 18,
          vertexData |-> << V(44, 0), V(-32, 16), V(-40, 0), V(-32, -16) >>,
          fillColor |-> << 200, 60, 60 >>, strokeColor |-> << 255, 150, 150 >>,
          strokeW |-> 80 ],
      Anaconda |->
        [ name |-> "Anaconda", size |-> 120,
          vertexData |-> << V(48, 0), V(36, 12), V(-36, 16), V(-44, 8),
                            V(-44, -8), V(-36, -16), V(36, -12) >>,
          fillColor |-> << 80, 90, 100 >>, strokeColor |-> << 150, 160, 170 >>,
          strokeW |-> 250 ],
      Thargoid |->
        [ name |-> "Thargoid Interceptor", size |-> 60,
          vertexData |-> << >>,
          fillColor |-> << >>, strokeColor |-> << >>, strokeW |-> 0 ] ]

CatalogKeys == DOMAIN Catalog

-----------------------------------------------------------------------------
(* Exact arithmetic helpers *)

Abs(a) == IF a < 0 THEN -a ELSE a

Sign(a) == IF a > 0 THEN 1 ELSE IF a < 0 THEN -1 ELSE 0

RECURSIVE Gcd(_, _)
Gcd(a, b) == IF b = 0 THEN a ELSE Gcd(b, a % b)

RECURSIVE Pow(_, _)
Pow(b, n) == IF n = 0 THEN 1 ELSE b * Pow(b, n - 1)

\* a/b < c/d for a, c >= 0 and b, d > 0, without forming the cross products
RECURSIVE FracLess(_, _, _, _)
FracLess(a, b, c, d) ==
    LET qa == a \div b
        qc == c \div d
        ra == a % b
        rc == c % d
    IN  IF qa # qc THEN qa < qc
        ELSE IF rc = 0 THEN FALSE
        ELSE IF ra = 0 THEN TRUE
        ELSE FracLess(d, rc, b, ra)

\* Natural numbers too large for a machine integer, as little-endian digit
\* sequences in base BigBase; used only to compare a zoomed size with a clamp.
BigBase == 100 * 100

RECURSIVE BigMul(_, _, _)
BigMul(s, k, carry) ==
    IF s = << >> THEN (IF carry = 0 THEN << >> ELSE << carry >>)
    ELSE LET t == Head(s) * k + carry
         IN  << t % BigBase >> \o BigMul(Tail(s), k, t \div BigBase)

RECURSIVE BigTimesPow(_, _, _)
BigTimesPow(s, k, n) == IF n = 0 THEN s ELSE BigTimesPow(BigMul(s, k, 0), k, n - 1)

BigOf(n) ==
    IF n < BigBase THEN << n >>
    ELSE IF n < BigBase * BigBase THEN << n % BigBase, n \div BigBase >>
    ELSE << n % BigBase, (n \div BigBase) % BigBase, n \div (BigBase * BigBase) >>

RECURSIVE BigLess(_, _)
BigLess(s, t) ==
    IF Len(s) # Len(t) THEN Len(s) < Len(t)
    ELSE IF s = << >> THEN FALSE
    ELSE IF s[Len(s)] # t[Len(t)] THEN s[Len(s)] < t[Len(t)]
    ELSE BigLess(SubSeq(s, 1, Len(s) - 1), SubSeq(t, 1, Len(t) - 1))

-----------------------------------------------------------------------------
(* Zoom sizes: [anchor, exp] stands for anchor * zoomFactor^exp *)

Size(anchor, exp) == [anchor |-> anchor, exp |-> exp]

\* the two sides of  size < limit  after clearing the powers of 6/5
SizeLessThan(size, limit) ==
    IF size.exp >= 0
    THEN BigLess(BigTimesPow(BigOf(size.anchor), zoomFactorNum, size.exp),
                 BigTimesPow(BigOf(limit), zoomFactorDen, size.exp))
    ELSE BigLess(BigTimesPow(BigOf(size.anchor), zoomFactorDen, -size.exp),
                 BigTimesPow(BigOf(limit), zoomFactorNum, -size.exp))

SizeGreaterThan(size, limit) ==
    IF size.exp >= 0
    THEN BigLess(BigTimesPow(BigOf(limit), zoomFactorDen, size.exp),
                 BigTimesPow(BigOf(size.anchor), zoomFactorNum, size.exp))
    ELSE BigLess(BigTimesPow(BigOf(limit), zoomFactorNum, -size.exp),
                 BigTimesPow(BigOf(size.anchor), zoomFactorDen, -size.exp))

\* a min that never clamps
MinSizeUnclamped(size, limit) == size

\* min(size, maxBaseDisplaySize) and max(size, minBaseDisplaySize)
MinSize(size, limit) == IF SizeLessThan(size, limit) THEN size ELSE Size(limit, 0)
MaxSize(size, limit) == IF SizeGreaterThan(size, limit) THEN size ELSE Size(limit, 0)

-----------------------------------------------------------------------------
(* JavaScript numbers.  A positive normal IEEE-754 double is [m, e], worth  *)
(* m * 2^e with 2^52 <= m < 2^53.  The significand m is a sequence of       *)
(* MantDigits digits of DigitBits bits each, least significant first; the   *)
(* operations round to nearest, ties to even, as the hardware does.         *)
(* An operator's argument is evaluated wherever the operator's body uses    *)
(* it: the operations bind their arguments to values first ({f(x) : x \in   *)
(* {a}}), so that a chain of operations costs the sum of their costs.       *)

\* a product of two digits and a carry fit a 32-bit integer
DigitBits == 2 * 7
DigitBase == 2^DigitBits
\* 52 stored bits and the leading one
MantBits == 52 + 1
MantDigits == (MantBits + 2) \div DigitBits + 1

\* the sequence << F(1), ..., F(n) >>
SeqOf(F(_), n) ==
    LET s[i \in 0 .. n] == IF i = 0 THEN << >> ELSE Append(s[i - 1], F(i))
    IN  s[n]

\* factor * a + carryIn, in Len(a) digits (a's digits may exceed DigitBase)
NatCarry(a, factor, carryIn) ==
    CHOOSE r \in
      { LET carry[i \in 0 .. Len(cols)] ==
                IF i = 0 THEN carryIn
                ELSE (factor * cols[i] + carry[i - 1]) \div DigitBase
            digit(i) == (factor * cols[i] + carry[i - 1]) % DigitBase
        IN  SeqOf(digit, Len(cols)) : cols \in {a} } : TRUE

\* a < b, for digit sequences of one length
NatLess(a, b) ==
    \E x \in {a}, y \in {b} :
        \E i \in 1 .. Len(x) : x[i] < y[i] /\ \A j \in i + 1 .. Len(x) : x[j] = y[j]

\* a - b, for a >= b
NatSub(a, b) ==
    CHOOSE r \in
      { LET borrow[i \in 0 .. Len(x)] ==
                IF i = 0 THEN 0
                ELSE IF x[i] - y[i] - borrow[i - 1] < 0 THEN 1 ELSE 0
            digit(i) == (x[i] - y[i] - borrow[i - 1] + DigitBase) % DigitBase
        IN  SeqOf(digit, Len(x)) : x \in {a}, y \in {b} } : TRUE

NatInc(a) == NatCarry(a, 1, 1)

\* column c of the schoolbook product of a and b
NatColumn(a, b, c) ==
    LET sum[i \in 0 .. Len(a)] ==
            IF i = 0 THEN 0
            ELSE sum[i - 1] + (IF c + 1 - i \in 1 .. Len(b) THEN a[i] * b[c + 1 - i] ELSE 0)
    IN  sum[Len(a)]

\* a * b, in Len(a) + Len(b) digits
NatMul(a, b) ==
    CHOOSE r \in
      { LET column(c) == NatColumn(x, y, c)
        IN  NatCarry(SeqOf(column, Len(x) + Len(y)), 1, 0) : x \in {a}, y \in {b} } : TRUE

\* bit n of a (bit 0 is the least significant)
NatBit(a, n) == (a[(n \div DigitBits) + 1] \div 2^(n % DigitBits)) % 2

\* floor(a / 2^s), in len digits
NatShiftRight(a, s, len) ==
    CHOOSE r \in
      { LET q == s \div DigitBits
            k == s % DigitBits
            at(i) == IF i \in 1 .. Len(x) THEN x[i] ELSE 0
            digit(d) == (at(d + q) \div 2^k) + (at(d + q + 1) % 2^k) * 2^(DigitBits - k)
        IN  SeqOf(digit, len) : x \in {a} } : TRUE

\* some bit of a below bit s is set
NatSticky(a, s) == \E x \in {a} : \E n \in 0 .. s - 1 : NatBit(x, n) = 1

Float(m, e) == [m |-> m, e |-> e]

\* the significand m, incremented when up, renormalised if that carries out
FloatCarry(m, up, e) ==
    CHOOSE f \in
      { IF NatBit(r, MantBits) = 1
        THEN Float(NatShiftRight(r, 1, MantDigits), e + 1)
        ELSE Float(r, e) : r \in {IF up THEN NatInc(m) ELSE m} } : TRUE

\* x * 2^e rounded to a double, where x has MantBits + s bits: round to
\* nearest, ties to even; inexact says that x itself was truncated
FloatRound(x, s, inexact, e) ==
    CHOOSE f \in
      { FloatCarry(m,
                   NatBit(v, s - 1) = 1
                     /\ (inexact \/ NatSticky(v, s - 1) \/ NatBit(m, 0) = 1),
                   e + s) :
          v \in {x}, m \in {NatShiftRight(x, s, MantDigits)} } : TRUE

\* the number of bits of n, 1 <= n < DigitBase
BitLength(n) == CHOOSE b \in 1 .. DigitBits : 2^(b - 1) <= n /\ n < 2^b

\* the double of a small positive integer
FloatOfInt(n) ==
    LET k == MantBits - BitLength(n)
        q == k \div DigitBits
        t == n * 2^(k % DigitBits)
        digit(d) == IF d = q + 1 THEN t % DigitBase
                    ELSE IF d = q + 2 THEN t \div DigitBase
                    ELSE 0
    IN  Float(SeqOf(digit, MantDigits), -k)

\* a * b
FloatMul(a, b) ==
    CHOOSE f \in
      { FloatRound(p,
                   IF NatBit(p, 2 * MantBits - 1) = 1 THEN MantBits ELSE MantBits - 1,
                   FALSE, e) :
          p \in {NatMul(a.m, b.m)}, e \in {a.e + b.e} } : TRUE

\* the next digit of the quotient of r by d (with r < d), and the remainder
\* it leaves: the digit c with c * d <= r * DigitBase < (c + 1) * d, looked
\* for between the bounds that the leading digits of r and d give
FloatDivDigit(r, d) ==
    CHOOSE x \in
      { [q |-> c, r |-> SubSeq(NatSub(<< 0 >> \o r, NatCarry(d \o << 0 >>, c, 0)),
                               1, MantDigits)] :
          c \in { CHOOSE c \in
                    ((r[MantDigits] * DigitBase + r[MantDigits - 1])
                        \div (d[MantDigits] + 1))
                    .. ((r[MantDigits] * DigitBase + r[MantDigits - 1] + 1)
                        \div d[MantDigits]) :
                    /\ c < DigitBase
                    /\ ~NatLess(<< 0 >> \o r, NatCarry(d \o << 0 >>, c, 0))
                    /\ NatLess(<< 0 >> \o r, NatCarry(d \o << 0 >>, c + 1, 0)) } } : TRUE

\* one more digit of the quotient, put before the digits so far
FloatDivStep(p, d) ==
    CHOOSE x \in
      { [digits |-> << digit.q >> \o p.digits, r |-> digit.r] :
          digit \in {FloatDivDigit(p.r, d)} } : TRUE

\* the next MantDigits digits of the quotient of r by d, least significant
\* first, and the remainder they leave
FloatDivDigits(r, d) ==
    LET step[n \in 0 .. MantDigits] ==
            IF n = 0 THEN [digits |-> << >>, r |-> r]
            ELSE CHOOSE x \in { FloatDivStep(p, d) : p \in {step[n - 1]} } : TRUE
    IN  step[MantDigits]

\* the quotient to MantDigits digits after the binary point, then rounded;
\* whole says that the quotient is at least 1
FloatQuotient(a, b, whole) ==
    CHOOSE f \in
      { FloatRound(qr.digits \o << IF whole THEN 1 ELSE 0 >>,
                   MantDigits * DigitBits - MantBits + (IF whole THEN 1 ELSE 0),
                   \E i \in 1 .. MantDigits : qr.r[i] # 0,
                   a.e - b.e - MantDigits * DigitBits) :
          qr \in {FloatDivDigits(IF whole THEN NatSub(a.m, b.m) ELSE a.m, b.m)} } : TRUE

\* a / b
FloatDiv(a, b) ==
    CHOOSE f \in
      { FloatQuotient(x, y, w) :
          x \in {a}, y \in {b}, w \in {~NatLess(a.m, b.m)} } : TRUE

\* a < b
FloatLess(a, b) ==
    \E x \in {a}, y \in {b} : x.e < y.e \/ (x.e = y.e /\ NatLess(x.m, y.m))

\* min(a, b) and max(a, b)
FloatMin(a, b) ==
    CHOOSE r \in { IF FloatLess(y, x) THEN y ELSE x : x \in {a}, y \in {b} } : TRUE

FloatMax(a, b) ==
    CHOOSE r \in { IF FloatLess(x, y) THEN y ELSE x : x \in {a}, y \in {b} } : TRUE

\* the literal 1.2: the double nearest to 6/5
zoomFactor == FloatDiv(FloatOfInt(zoomFactorNum), FloatOfInt(zoomFactorDen))

-----------------------------------------------------------------------------
(* State *)

VARIABLES
    SHIP_DEFINITIONS,           \* the catalog object
    currentShipKey, currentShipDef,
    shapes, historyStack,
    baseDisplaySize, maxDefinedShipSize, pixelsPerUnit,
    baseDisplaySizeNumber,      \* the double that baseDisplaySize holds
    pixelsPerUnitNumber,        \* the double that pixelsPerUnit holds
    selectedShapeIndex, selectedVertexIndices,
    draggingVertex, addingVertexMode, draggingShape, dragOccurred,
    dragVertexStartX, dragVertexStartY, dragVertexInitialPositions,
    dragShapeStartX, dragShapeStartY, dragConstrainedAxis,
    pmouseX, pmouseY,           \* p5's previous pointer position
    mouseIsPressed,             \* p5: a mouse button is held down
    eventCount,                 \* events delivered so far (bound)
    lastEvent                   \* the handler that ran last, with its inputs

catalogVars == << SHIP_DEFINITIONS >>
designVars == << currentShipKey, currentShipDef >>
zoomVars == << baseDisplaySize, maxDefinedShipSize, pixelsPerUnit,
              baseDisplaySizeNumber, pixelsPerUnitNumber >>
selectionVars == << selectedShapeIndex, selectedVertexIndices >>
flagVars == << draggingVertex, addingVertexMode, draggingShape, dragOccurred >>
dragVars == << dragVertexStartX, dragVertexStartY, dragVertexInitialPositions,
               dragShapeStartX, dragShapeStartY, dragConstrainedAxis >>
pointerVars == << pmouseX, pmouseY, mouseIsPressed >>

\* an event: the handler's name and the inputs it read
Ev(type, x, y, shift, arg, text) ==
    [type |-> type, x |-> x, y |-> y, shift |-> shift, arg |-> arg, text |-> text]

Called(type) == Ev(type, 0, 0, FALSE, "", << >>)

vars == << SHIP_DEFINITIONS, currentShipKey, currentShipDef, shapes, historyStack,
           baseDisplaySize, maxDefinedShipSize, pixelsPerUnit,
           baseDisplaySizeNumber, pixelsPerUnitNumber,
           selectedShapeIndex, selectedVertexIndices,
           draggingVertex, addingVertexMode, draggingShape, dragOccurred,
           dragVertexStartX, dragVertexStartY, dragVertexInitialPositions,
           dragShapeStartX, dragShapeStartY, dragConstrainedAxis,
           pmouseX, pmouseY, mouseIsPressed, eventCount, lastEvent >>

-----------------------------------------------------------------------------
(* setup(): the largest catalog size, and the scale *)

Max(S) == CHOOSE m \in S : \A n \in S : n <= m

SetupMaxDefinedShipSize ==
    Max({1} \cup {Catalog[k].size : k \in CatalogKeys})

\* calculateScale(): pixelsPerUnit = baseDisplaySize / maxDefinedShipSize
calculateScale(base, maxSize) == [base |-> base, per |-> maxSize]

\* the same quotient as the double the division yields
calculateScaleNumber(base, maxSize) == FloatDiv(base, FloatOfInt(maxSize))

-----------------------------------------------------------------------------
(* Layers.  A layer is { vertexData, fillColor, strokeColor, strokeW }.     *)
(* vertexOwner is the identity of the vertexData array object: "own" for an *)
(* array only this layer holds, or the catalog key whose vertexData array   *)
(* it is.  Writes made in place to a shared array reach the catalog.        *)
(* strokeWKind tells what strokeW holds: "number" for the number in strokeW, *)
(* "NaN" for the number NaN, "null" for null.                               *)

Own == "own"

Layer(vd, fill, stroke, w, owner) ==
    [vertexData |-> vd, fillColor |-> fill, strokeColor |-> stroke,
     strokeW |-> w, strokeWKind |-> "number", vertexOwner |-> owner]

\* JSON.stringify writes NaN as null
JsonNumberKind(kind) == IF kind = "number" THEN "number" ELSE "null"

\* what JSON.parse(JSON.stringify(vertexData)) yields: fresh {x, y} objects
JsonCopyVertexData(vd) == [i \in 1 .. Len(vd) |-> [x |-> vd[i].x, y |-> vd[i].y]]

\* JSON.parse(JSON.stringify(shapes)): a fresh, unshared copy of every layer
JsonCopyShapes(shp) ==
    [i \in 1 .. Len(shp) |->
        [Layer(JsonCopyVertexData(shp[i].vertexData),
               [c \in 1 .. Len(shp[i].fillColor) |-> shp[i].fillColor[c]],
               [c \in 1 .. Len(shp[i].strokeColor) |-> shp[i].strokeColor[c]],
               shp[i].strokeW, Own)
            EXCEPT !.strokeWKind = JsonNumberKind(shp[i].strokeWKind)]]

\* shapes[i] is truthy
HasShape(shp, i) == i >= 0 /\ i < Len(shp)

\* shape.vertexData mutated in place (splice, element writes)
WriteVertexData(shp, i, vd) == [shp EXCEPT ![i + 1].vertexData = vd]

\* the catalog after the same in-place write
CatalogAfterWrite(defs, shp, i, vd) ==
    LET owner == shp[i + 1].vertexOwner
    IN  IF owner \in DOMAIN defs THEN [defs EXCEPT ![owner].vertexData = vd] ELSE defs

\* shape.vertexData = <a new array>
ReplaceVertexData(shp, i, vd) ==
    [shp EXCEPT ![i + 1].vertexData = vd, ![i + 1].vertexOwner = Own]

-----------------------------------------------------------------------------
(* isThargoidSelected, isEditable, updateUIControls *)

\* no design is taken for the Thargoid
isThargoidNever(key, def) == FALSE

isThargoidSelected(key, def) ==
    key = "Thargoid" /\ def # NULL /\ SHIP_DEFINITIONS[def].name = "Thargoid Interceptor"

isEditable(key, def) ==
    \/ key = NewBlank
    \/ key # NULL /\ key # SelectPrompt /\ def # NULL /\ ~isThargoidSelected(key, def)

\* an updateUIControls that leaves the mode as it is
updateUIControlsKeeping(mode, key, def, shp, sel) == mode

\* updateUIControls() sets DOM state and turns addingVertexMode off when no
\* editable layer is selected: the value it leaves in addingVertexMode
updateUIControls(mode, key, def, shp, sel) ==
    LET shapeSelected == sel # -1 /\ isEditable(key, def) /\ HasShape(shp, sel)
    IN  IF ~shapeSelected THEN FALSE ELSE mode

-----------------------------------------------------------------------------
(* Undo history *)

ValidColor(c) == Len(c) = 3

\* the structural validation of saveStateForUndo and undoLastChange:
\* colours of 3 channels and typeof strokeW === 'number', which NaN passes
\* and null does not; the model's coordinates and channels are never NaN
ValidShapes(shp) ==
    \A i \in 1 .. Len(shp) :
        /\ ValidColor(shp[i].fillColor)
        /\ ValidColor(shp[i].strokeColor)
        /\ shp[i].strokeWKind # "null"

\* a saveStateForUndo that pushes nothing
saveStateNothing(hist, shp) == hist

\* a saveStateForUndo that never discards the oldest entry
saveStateUnbounded(hist, shp) == Append(hist, JsonCopyShapes(shp))

\* historyStack after saveStateForUndo()
saveStateForUndo(hist, shp) ==
    IF ~ValidShapes(shp) THEN hist
    ELSE LET pushed == Append(hist, JsonCopyShapes(shp))
         IN  IF Len(pushed) > maxHistorySize THEN Tail(pushed) ELSE pushed

\* an undo that restores the Shape Set and leaves the interaction as it is
undoKeepingInteraction ==
    IF historyStack = << >>
    THEN UNCHANGED << catalogVars, designVars, shapes, historyStack, zoomVars,
                      selectionVars, flagVars, dragVars, pointerVars >>
    ELSE /\ historyStack' = SubSeq(historyStack, 1, Len(historyStack) - 1)
         /\ shapes' = JsonCopyShapes(historyStack[Len(historyStack)])
         /\ UNCHANGED << catalogVars, designVars, zoomVars, selectionVars, flagVars,
                         dragVars, pointerVars >>

\* undoLastChange()
undoLastChange ==
    IF historyStack = << >>
    THEN UNCHANGED << catalogVars, designVars, shapes, historyStack, zoomVars,
                      selectionVars, flagVars, dragVars, pointerVars >>
    ELSE
    /\ LET previousState == historyStack[Len(historyStack)]
           restoredShapes == JsonCopyShapes(previousState)
       IN  IF ~ValidShapes(restoredShapes)
           THEN /\ historyStack' = << >>
                /\ addingVertexMode' = updateUIControls(addingVertexMode, currentShipKey,
                                           currentShipDef, shapes, selectedShapeIndex)
                /\ UNCHANGED << shapes, selectionVars, draggingVertex, draggingShape,
                                dragOccurred >>
           ELSE /\ historyStack' = SubSeq(historyStack, 1, Len(historyStack) - 1)
                /\ shapes' = restoredShapes
                /\ selectedShapeIndex' = -1
                /\ selectedVertexIndices' = << >>
                /\ addingVertexMode' = FALSE
                /\ draggingVertex' = FALSE
                /\ draggingShape' = FALSE
                /\ dragOccurred' = FALSE
    /\ UNCHANGED << catalogVars, designVars, zoomVars, dragVars, pointerVars >>

-----------------------------------------------------------------------------
(* Zoom *)

zoomInSize(base) ==
    MinSize(Size(base.anchor, base.exp + 1), maxBaseDisplaySize)

zoomOutSize(base) ==
    MaxSize(Size(base.anchor, base.exp - 1), minBaseDisplaySize)

\* min(baseDisplaySize * zoomFactor, maxBaseDisplaySize), in doubles
zoomInNumber(base) ==
    FloatMin(FloatMul(base, zoomFactor), FloatOfInt(maxBaseDisplaySize))

\* a zoom-out that divides twice
zoomOutNumberTwice(base) ==
    FloatMax(FloatDiv(FloatDiv(base, zoomFactor), zoomFactor),
             FloatOfInt(minBaseDisplaySize))

\* max(baseDisplaySize / zoomFactor, minBaseDisplaySize), in doubles
zoomOutNumber(base) ==
    FloatMax(FloatDiv(base, zoomFactor), FloatOfInt(minBaseDisplaySize))

\* what the zoom handlers compute from the size base
ZoomEntry(base) ==
    [size |-> base,
     zoomedIn |-> zoomInNumber(base),
     zoomedOut |-> zoomOutNumber(base),
     scale |-> calculateScaleNumber(base, SetupMaxDefinedShipSize)]

\* ZoomTable holds ZoomEntry for the sizes within ZoomTableRounds^2 zoom
\* calls of the initial size, computed once; Zoomed computes any other
\* size's entry on demand, so the rounds change the cost and never a value.
ZoomTableRounds == 7

\* the entries of the sizes one zoom call beyond the newest entries
ZoomGrow(p) ==
    CHOOSE x \in
      { [all |-> p.all \cup new, new |-> new] :
          new \in { { ZoomEntry(base) :
                        base \in ({t.zoomedIn : t \in p.new} \cup {t.zoomedOut : t \in p.new})
                                     \ {t.size : t \in p.all} } } } : TRUE

ZoomGrowTimes(p, n) ==
    LET level[k \in 0 .. n] ==
            IF k = 0 THEN p
            ELSE CHOOSE x \in { ZoomGrow(q) : q \in {level[k - 1]} } : TRUE
    IN  level[n]

ZoomTable ==
    LET round[k \in 0 .. ZoomTableRounds] ==
            IF k = 0
            THEN [all |-> {ZoomEntry(FloatOfInt(initialBaseDisplaySize))},
                  new |-> {ZoomEntry(FloatOfInt(initialBaseDisplaySize))}]
            ELSE CHOOSE x \in { ZoomGrowTimes(q, ZoomTableRounds) :
                                  q \in {round[k - 1]} } : TRUE
    IN  round[ZoomTableRounds].all

Zoomed(base) ==
    IF \E t \in ZoomTable : t.size = base
    THEN CHOOSE t \in ZoomTable : t.size = base
    ELSE CHOOSE t \in { ZoomEntry(b) : b \in {base} } : TRUE

ScaleOf(base, maxSize) ==
    IF maxSize = SetupMaxDefinedShipSize THEN Zoomed(base).scale
    ELSE calculateScaleNumber(base, maxSize)

zoomIn ==
    /\ baseDisplaySize' = zoomInSize(baseDisplaySize)
    /\ pixelsPerUnit' = calculateScale(baseDisplaySize', maxDefinedShipSize)
    /\ baseDisplaySizeNumber' = Zoomed(baseDisplaySizeNumber).zoomedIn
    /\ pixelsPerUnitNumber' = ScaleOf(baseDisplaySizeNumber', maxDefinedShipSize)
    /\ UNCHANGED << catalogVars, designVars, shapes, historyStack, maxDefinedShipSize,
                    selectionVars, flagVars, dragVars, pointerVars >>

zoomOut ==
    /\ baseDisplaySize' = zoomOutSize(baseDisplaySize)
    /\ pixelsPerUnit' = calculateScale(baseDisplaySize', maxDefinedShipSize)
    /\ baseDisplaySizeNumber' = Zoomed(baseDisplaySizeNumber).zoomedOut
    /\ pixelsPerUnitNumber' = ScaleOf(baseDisplaySizeNumber', maxDefinedShipSize)
    /\ UNCHANGED << catalogVars, designVars, shapes, historyStack, maxDefinedShipSize,
                    selectionVars, flagVars, dragVars, pointerVars >>

-----------------------------------------------------------------------------
(* handleShipSelection *)

SelectorOptions == {SelectPrompt, NewBlank} \cup CatalogKeys

\* a load that keeps the definition's own vertexData array
LoadLayerShared(def) ==
    Layer(def.vertexData, def.fillColor, def.strokeColor, def.strokeW,
          CHOOSE k \in DOMAIN Catalog : Catalog[k].name = def.name)

\* a load that ignores the definition's style
LoadLayerUnstyled(def) ==
    Layer(JsonCopyVertexData(def.vertexData), << 180, 180, 180 >>, << 50, 50, 50 >>,
          WeightUnit, Own)

\* the layer built from a definition: deep copy of vertexData, copies of the
\* colours (or the defaults), strokeW || 1
LoadLayer(def) ==
    Layer(JsonCopyVertexData(def.vertexData),
          IF def.fillColor # << >> THEN def.fillColor ELSE << 180, 180, 180 >>,
          IF def.strokeColor # << >> THEN def.strokeColor ELSE << 50, 50, 50 >>,
          IF def.strokeW # 0 THEN def.strokeW ELSE WeightUnit,
          Own)

\* a selection that only switches the design's key
handleShipSelectionKeeping(value) ==
    /\ currentShipKey' = IF value = NewBlank \/ value \in DOMAIN SHIP_DEFINITIONS
                         THEN value ELSE NULL
    /\ currentShipDef' = IF value \in DOMAIN SHIP_DEFINITIONS THEN value ELSE NULL
    /\ UNCHANGED << catalogVars, shapes, historyStack, zoomVars, selectionVars, flagVars,
                    dragVars, pmouseX, pmouseY >>

handleShipSelection(value) ==
    /\ historyStack' = << >>
    /\ selectedVertexIndices' = << >>
    /\ draggingShape' = FALSE
    /\ draggingVertex' = FALSE
    /\ dragConstrainedAxis' = NULL
    /\ dragOccurred' = FALSE
    /\ IF value = NewBlank
       THEN /\ currentShipKey' = value
            /\ currentShipDef' = NULL
            /\ shapes' = << >>
            /\ selectedShapeIndex' = -1
       ELSE IF value \in DOMAIN SHIP_DEFINITIONS
       THEN /\ currentShipKey' = value
            /\ currentShipDef' = value
            /\ IF Len(SHIP_DEFINITIONS[value].vertexData) > 0
                  /\ ~isThargoidSelected(value, value)
               THEN /\ shapes' = << LoadLayer(SHIP_DEFINITIONS[value]) >>
                    /\ selectedShapeIndex' = 0
               ELSE /\ shapes' = << >>
                    /\ selectedShapeIndex' = -1
       ELSE /\ currentShipKey' = NULL
            /\ currentShipDef' = NULL
            /\ shapes' = << >>
            /\ selectedShapeIndex' = -1
    /\ addingVertexMode' = updateUIControls(FALSE, currentShipKey', currentShipDef',
                                            shapes', selectedShapeIndex')
    /\ UNCHANGED << catalogVars, zoomVars, dragVertexStartX, dragVertexStartY,
                    dragVertexInitialPositions, dragShapeStartX, dragShapeStartY,
                    pointerVars >>

-----------------------------------------------------------------------------
(* addNewShape *)

DefaultShape ==
    Layer(<< V(-8, 8), V(8, 8), V(0, -8) >>, << 150, 150, 180 >>, << 50, 50, 60 >>,
          WeightUnit, Own)

\* the new layer goes below the others
addNewShapeBelow ==
    IF ~isEditable(currentShipKey, currentShipDef) /\ currentShipKey # NewBlank
    THEN UNCHANGED << catalogVars, designVars, shapes, historyStack, zoomVars,
                      selectionVars, flagVars, dragVars, pointerVars >>
    ELSE
    /\ historyStack' = saveStateForUndo(historyStack, shapes)
    /\ shapes' = shapes \o << DefaultShape >>
    /\ selectedShapeIndex' = Len(shapes)
    /\ selectedVertexIndices' = << >>
    /\ UNCHANGED << catalogVars, designVars, zoomVars, flagVars, dragVars, pointerVars >>

addNewShape ==
    IF ~isEditable(currentShipKey, currentShipDef) /\ currentShipKey # NewBlank
    THEN UNCHANGED << catalogVars, designVars, shapes, historyStack, zoomVars,
                      selectionVars, flagVars, dragVars, pointerVars >>
    ELSE
    /\ historyStack' = saveStateForUndo(historyStack, shapes)
    /\ shapes' = << DefaultShape >> \o shapes
    /\ selectedShapeIndex' = 0
    /\ selectedVertexIndices' = << >>
    /\ IF currentShipKey = NULL \/ currentShipKey = SelectPrompt
       THEN currentShipKey' = NewBlank /\ currentShipDef' = NULL
       ELSE UNCHANGED designVars
    /\ addingVertexMode' = updateUIControls(
           updateUIControls(addingVertexMode, currentShipKey, currentShipDef, shapes,
                            selectedShapeIndex),
           currentShipKey', currentShipDef', shapes', selectedShapeIndex')
    /\ UNCHANGED << catalogVars, zoomVars, draggingVertex, draggingShape, dragOccurred,
                    dragVars, pointerVars >>

-----------------------------------------------------------------------------
(* Initial state: the state setup() leaves *)

Init ==
    /\ SHIP_DEFINITIONS = Catalog
    /\ currentShipKey = NULL
    /\ currentShipDef = NULL
    /\ shapes = << >>
    /\ historyStack = << >>
    /\ baseDisplaySize = Size(initialBaseDisplaySize, 0)
    /\ maxDefinedShipSize = SetupMaxDefinedShipSize
    /\ pixelsPerUnit = calculateScale(baseDisplaySize, maxDefinedShipSize)
    /\ baseDisplaySizeNumber = FloatOfInt(initialBaseDisplaySize)
    /\ pixelsPerUnitNumber = ScaleOf(baseDisplaySizeNumber, maxDefinedShipSize)
    /\ selectedShapeIndex = -1
    /\ selectedVertexIndices = << >>
    /\ draggingVertex = FALSE
    /\ addingVertexMode = FALSE
    /\ draggingShape = FALSE
    /\ dragOccurred = FALSE
    /\ dragVertexStartX = 0
    /\ dragVertexStartY = 0
    /\ dragVertexInitialPositions = << >>
    /\ dragShapeStartX = 0
    /\ dragShapeStartY = 0
    /\ dragConstrainedAxis = NULL
    /\ pmouseX = 0
    /\ pmouseY = 0
    /\ mouseIsPressed = FALSE
    /\ eventCount = 0
    /\ lastEvent = Called("setup")

-----------------------------------------------------------------------------
(* Geometry utilities, on grid coordinates *)

distSq(x1, y1, x2, y2) == (x1 - x2) * (x1 - x2) + (y1 - y2) * (y1 - y2)

\* distSqToSegment as the fraction n/d: with t the clamped projection
\* parameter, |p - proj|^2 is |p - v1|^2 (t = 0), |p - v2|^2 (t = 1) or
\* cross^2 / l2 (0 < t < 1)
distSqToSegment(px, py, x1, y1, x2, y2) ==
    LET l2 == distSq(x1, y1, x2, y2)
        tnum == (px - x1) * (x2 - x1) + (py - y1) * (y2 - y1)
        cross == (px - x1) * (y2 - y1) - (py - y1) * (x2 - x1)
    IN  IF l2 = 0 THEN [n |-> distSq(px, py, x1, y1), d |-> 1]
        ELSE IF tnum <= 0 THEN [n |-> distSq(px, py, x1, y1), d |-> 1]
        ELSE IF tnum >= l2 THEN [n |-> distSq(px, py, x2, y2), d |-> 1]
        ELSE [n |-> cross * cross, d |-> l2]

\* one edge of the ray-crossing test: does edge (vj, vi) toggle isInside
EdgeCrosses(px, py, vi, vj) ==
    /\ (vi.y > py) # (vj.y > py)
    /\ LET dy == vj.y - vi.y
           lhs == (px - vi.x) * dy
           rhs == (vj.x - vi.x) * (py - vi.y)
       IN  IF dy > 0 THEN lhs < rhs ELSE lhs > rhs

RECURSIVE CrossingParity(_, _, _, _)
CrossingParity(px, py, vd, i) ==
    IF i > Len(vd) THEN FALSE
    ELSE LET j == IF i = 1 THEN Len(vd) ELSE i - 1
             rest == CrossingParity(px, py, vd, i + 1)
         IN  IF EdgeCrosses(px, py, vd[i], vd[j]) THEN ~rest ELSE rest

isPointInPolygon(px, py, vd) ==
    IF Len(vd) < 3 THEN FALSE ELSE CrossingParity(px, py, vd, 1)

\* the scan of findClosestEdgeRelative from edge i on: best is the 0-based
\* index of the closest edge so far (-1: none) and bestD its distance
RECURSIVE ClosestEdgeFrom(_, _, _, _, _, _)
ClosestEdgeFrom(vd, mx, my, i, best, bestD) ==
    IF i >= Len(vd) THEN best
    ELSE LET v1 == vd[i + 1]
             v2 == vd[((i + 1) % Len(vd)) + 1]
             dd == distSqToSegment(mx, my, v1.x, v1.y, v2.x, v2.y)
         IN  IF best = -1 \/ FracLess(dd.n, dd.d, bestD.n, bestD.d)
             THEN ClosestEdgeFrom(vd, mx, my, i + 1, i, dd)
             ELSE ClosestEdgeFrom(vd, mx, my, i + 1, best, bestD)

\* closestEdgeInfo.index, or -1 for null
findClosestEdgeRelative(vd, mx, my) ==
    IF Len(vd) < 2 THEN -1 ELSE ClosestEdgeFrom(vd, mx, my, 0, -1, [n |-> 0, d |-> 1])

-----------------------------------------------------------------------------
(* Coordinate transform *)

Fraction(n, d) == LET g == Gcd(Abs(n), Abs(d)) IN [n |-> n \div g, d |-> d \div g]

\* the value of a zoom size as a fraction (small exponents only)
SizeValue(size) ==
    IF size.exp >= 0
    THEN Fraction(size.anchor * Pow(zoomFactorNum, size.exp), Pow(zoomFactorDen, size.exp))
    ELSE Fraction(size.anchor * Pow(zoomFactorDen, -size.exp), Pow(zoomFactorNum, -size.exp))

\* interaction_r, in pixels per relative unit
interactionR(key, def, shp, base, ppu, maxSize) ==
    LET b == SizeValue(base)
        p == SizeValue(ppu.base)
        size == IF def # NULL
                THEN (IF SHIP_DEFINITIONS[def].size # 0 THEN SHIP_DEFINITIONS[def].size ELSE 1)
                ELSE 0
    IN  IF def # NULL THEN Fraction(size * p.n, p.d * ppu.per * 2)
        ELSE IF Len(shp) > 0 /\ key = NewBlank
             THEN Fraction(b.n * blankDrawSize, b.d * maxSize * 2)
             ELSE Fraction(b.n, b.d * maxSize * 2)

\* (sqrt(n/d) grid units, in pixels) < limit pixels:
\* n / d < (limit * CoordUnit * r.d / r.n)^2, by machine integers where the
\* squares fit them
PixelsLess(n, d, r, limit) ==
    IF r.d * limit * CoordUnit < 2^15 /\ r.n < 2^15
    THEN FracLess(n, d, limit * limit * CoordUnit * CoordUnit * r.d * r.d, r.n * r.n)
    ELSE BigLess(BigMul(BigMul(BigOf(n), r.n, 0), r.n, 0),
                 BigMul(BigMul(BigMul(BigMul(BigOf(d), limit * CoordUnit, 0),
                                      limit * CoordUnit, 0), r.d, 0), r.d, 0))

\* (sqrt(n) grid units, in pixels)^2 > limitSq
PixelsSqGreater(n, r, limitSq) ==
    FracLess(limitSq * CoordUnit * CoordUnit * r.d * r.d, r.n * r.n, n, 1)

\* |a| grid units, in pixels, > limit pixels
PixelsAbsGreater(a, r, limit) == Abs(a) * r.n > limit * CoordUnit * r.d

\* the pointer is on the canvas: 0 <= mouseX <= width, 0 <= mouseY <= height
OnCanvas(mx, my, r) ==
    /\ 2 * Abs(mx) * r.n <= canvasWidth * CoordUnit * r.d
    /\ 2 * Abs(my) * r.n <= canvasHeight * CoordUnit * r.d

-----------------------------------------------------------------------------
(* Array helpers (0-based positions) *)

\* arr.indexOf(v)
RECURSIVE IndexFrom(_, _, _)
IndexFrom(arr, v, i) ==
    IF i >= Len(arr) THEN -1
    ELSE IF arr[i + 1] = v THEN i
    ELSE IndexFrom(arr, v, i + 1)

\* an indexOf that never finds the value
indexOfNothing(arr, v) == -1

indexOf(arr, v) == IndexFrom(arr, v, 0)

includes(arr, v) == \E i \in 1 .. Len(arr) : arr[i] = v

\* a splice that removes nothing
spliceOutNothing(arr, pos) == arr

\* arr.splice(pos, 1)
spliceOut(arr, pos) == SubSeq(arr, 1, pos) \o SubSeq(arr, pos + 2, Len(arr))

\* arr.splice(pos, 0, v)
spliceIn(arr, pos, v) == SubSeq(arr, 1, pos) \o << v >> \o SubSeq(arr, pos + 1, Len(arr))

\* a filter that keeps every element
FilterNothing(arr, drop, i) == arr

\* arr.filter((_, index) => !drop.includes(index))
RECURSIVE FilterFrom(_, _, _)
FilterFrom(arr, drop, i) ==
    IF i >= Len(arr) THEN << >>
    ELSE (IF includes(drop, i) THEN << >> ELSE << arr[i + 1] >>)
         \o FilterFrom(arr, drop, i + 1)

filterOut(arr, drop) == FilterFrom(arr, drop, 0)

-----------------------------------------------------------------------------
(* Hit tests of mousePressed *)

RECURSIVE HandleFrom(_, _, _, _, _)
HandleFrom(vd, mx, my, r, i) ==
    IF i >= Len(vd) THEN -1
    ELSE IF PixelsLess(distSq(mx, my, vd[i + 1].x, vd[i + 1].y), 1, r, grabRadius) THEN i
    ELSE HandleFrom(vd, mx, my, r, i + 1)

\* clickedVertexHandleIndex: the first handle of the selected layer within
\* grabRadius, or -1
clickedVertexHandle(key, def, shp, sel, mx, my, r) ==
    IF isEditable(key, def) /\ sel # -1 /\ HasShape(shp, sel)
    THEN HandleFrom(shp[sel + 1].vertexData, mx, my, r, 0)
    ELSE -1

RECURSIVE ShapeFrom(_, _, _, _)
ShapeFrom(shp, mx, my, i) ==
    IF i >= Len(shp) THEN -1
    ELSE IF Len(shp[i + 1].vertexData) >= 3
            /\ isPointInPolygon(mx, my, shp[i + 1].vertexData) THEN i
    ELSE ShapeFrom(shp, mx, my, i + 1)

\* a search that returns the last layer, top-down, that contains the point
clickedShapeBottomUp(shp, mx, my) ==
    LET hits == { i \in 0 .. Len(shp) - 1 :
                    Len(shp[i + 1].vertexData) >= 3
                    /\ isPointInPolygon(mx, my, shp[i + 1].vertexData) }
    IN  IF hits = {} THEN -1 ELSE Max(hits)

\* a search that finds no layer
clickedShapeNone(shp, mx, my) == -1

\* clickedShapeIndex: the first layer, top-down, that contains the point, or -1
clickedShape(shp, mx, my) == ShapeFrom(shp, mx, my, 0)

\* an add-vertex press that takes edge 0 wherever the point is
addVertexFirstEdge(vd, mx, my, r) == 0

\* the edge an add-vertex press inserts on: the closest edge when its pixel
\* distance is below edgeClickMinDist, else -1
addVertexEdge(vd, mx, my, r) ==
    LET e == findClosestEdgeRelative(vd, mx, my)
    IN  IF e = -1 THEN -1
        ELSE LET v1 == vd[e + 1]
                 v2 == vd[((e + 1) % Len(vd)) + 1]
                 dd == distSqToSegment(mx, my, v1.x, v1.y, v2.x, v2.y)
             IN  IF PixelsLess(dd.n, dd.d, r, edgeClickMinDist) THEN e ELSE -1

\* the midpoint is on the coordinate grid
MidpointOnGrid(v1, v2) == (v1.x + v2.x) % 2 = 0 /\ (v1.y + v2.y) % 2 = 0

midpoint(v1, v2) == V((v1.x + v2.x) \div 2, (v1.y + v2.y) \div 2)

\* an insertion at the end of the array
insertAtEnd(vd, e) == Append(vd, midpoint(vd[e + 1], vd[((e + 1) % Len(vd)) + 1]))

\* shape.vertexData after splice(index + 1, 0, newVertex)
insertMidpoint(vd, e) ==
    spliceIn(vd, e + 1, midpoint(vd[e + 1], vd[((e + 1) % Len(vd)) + 1]))

\* initial positions recorded for the first selected vertex only
initialPositionsFirst(vd, sel) ==
    [k \in 1 .. 1 |-> [index |-> sel[1], x |-> vd[sel[1] + 1].x, y |-> vd[sel[1] + 1].y]]

\* dragVertexInitialPositions as the press records them
initialPositions(vd, sel) ==
    LET valid == SelectSeq(sel, LAMBDA idx : idx >= 0 /\ idx < Len(vd))
    IN  [k \in 1 .. Len(valid) |->
            [index |-> valid[k], x |-> vd[valid[k] + 1].x, y |-> vd[valid[k] + 1].y]]

-----------------------------------------------------------------------------
(* mousePressed *)

\* 1. add-vertex mode
pressAddVertex(mx, my, r) ==
    LET sel == selectedShapeIndex
        has == sel # -1 /\ HasShape(shapes, sel)
        vd == shapes[sel + 1].vertexData
        e == IF has THEN addVertexEdge(vd, mx, my, r) ELSE -1
        modeAfterSave == updateUIControls(addingVertexMode, currentShipKey,
                                          currentShipDef, shapes, sel)
    IN  /\ dragOccurred' = FALSE
        /\ draggingVertex' = FALSE
        /\ draggingShape' = FALSE
        /\ dragVertexInitialPositions' = << >>
        /\ dragConstrainedAxis' = NULL
        /\ IF e # -1
           THEN /\ MidpointOnGrid(vd[e + 1], vd[((e + 1) % Len(vd)) + 1])
                /\ historyStack' = saveStateForUndo(historyStack, shapes)
                /\ shapes' = WriteVertexData(shapes, sel, insertMidpoint(vd, e))
                /\ SHIP_DEFINITIONS' = CatalogAfterWrite(SHIP_DEFINITIONS, shapes, sel,
                                                        insertMidpoint(vd, e))
                /\ selectedVertexIndices' = << >>
                /\ addingVertexMode' = updateUIControls(modeAfterSave, currentShipKey,
                                           currentShipDef, shapes', sel)
           ELSE /\ UNCHANGED << historyStack, shapes, SHIP_DEFINITIONS,
                                selectedVertexIndices >>
                /\ addingVertexMode' = updateUIControls(addingVertexMode, currentShipKey,
                                           currentShipDef, shapes, sel)
        /\ UNCHANGED << designVars, zoomVars, selectedShapeIndex, dragVertexStartX,
                        dragVertexStartY, dragShapeStartX, dragShapeStartY >>

\* 2. a vertex handle of the selected layer was hit
pressHandle(h, mx, my, shift) ==
    LET sel == selectedShapeIndex
        vd == shapes[sel + 1].vertexData
        indexInSelection == indexOf(selectedVertexIndices, h)
        currentlySelected == indexInSelection # -1
    IN  /\ dragOccurred' = FALSE
        /\ draggingShape' = FALSE
        /\ dragConstrainedAxis' = NULL
        /\ IF shift
           THEN /\ selectedVertexIndices' =
                       IF currentlySelected
                       THEN spliceOut(selectedVertexIndices, indexInSelection)
                       ELSE Append(selectedVertexIndices, h)
                /\ draggingVertex' = FALSE
                /\ dragVertexInitialPositions' = << >>
                /\ addingVertexMode' = updateUIControls(addingVertexMode, currentShipKey,
                                           currentShipDef, shapes, sel)
                /\ UNCHANGED << historyStack, dragVertexStartX, dragVertexStartY >>
           ELSE /\ selectedVertexIndices' =
                       IF currentlySelected THEN selectedVertexIndices ELSE << h >>
                /\ historyStack' = saveStateForUndo(historyStack, shapes)
                /\ draggingVertex' = TRUE
                /\ dragVertexStartX' = mx
                /\ dragVertexStartY' = my
                /\ dragVertexInitialPositions' = initialPositions(vd, selectedVertexIndices')
                /\ addingVertexMode' = updateUIControls(addingVertexMode, currentShipKey,
                                           currentShipDef, shapes, sel)
        /\ UNCHANGED << catalogVars, designVars, zoomVars, shapes, selectedShapeIndex,
                        dragShapeStartX, dragShapeStartY >>

\* a press that selects the layer hit, or none, and takes a snapshot
pressShapeSnapshot(mx, my) ==
    /\ dragOccurred' = FALSE
    /\ draggingVertex' = FALSE
    /\ draggingShape' = FALSE
    /\ dragVertexInitialPositions' = << >>
    /\ dragConstrainedAxis' = NULL
    /\ selectedShapeIndex' = clickedShape(shapes, mx, my)
    /\ selectedVertexIndices' = << >>
    /\ historyStack' = saveStateForUndo(historyStack, shapes)
    /\ addingVertexMode' = updateUIControls(addingVertexMode, currentShipKey,
                               currentShipDef, shapes, selectedShapeIndex')
    /\ UNCHANGED << catalogVars, designVars, zoomVars, shapes, dragVertexStartX,
                    dragVertexStartY, dragShapeStartX, dragShapeStartY >>

\* a press inside a layer starts a layer drag and leaves a vertex drag
\* running
pressShapeOnTop(mx, my) ==
    /\ draggingShape' = (clickedShape(shapes, mx, my) # -1)
    /\ dragShapeStartX' = mx
    /\ dragShapeStartY' = my
    /\ UNCHANGED << catalogVars, designVars, shapes, historyStack, zoomVars,
                    selectionVars, draggingVertex, addingVertexMode, dragOccurred,
                    dragVertexStartX, dragVertexStartY, dragVertexInitialPositions,
                    dragConstrainedAxis >>

\* 3. no handle hit: layer selection, layer drag, or deselection
pressShape(mx, my) ==
    LET sel == selectedShapeIndex
        editable == isEditable(currentShipKey, currentShipDef)
        clickedShapeIndex == clickedShape(shapes, mx, my)
        clickedInsideSelectedShape == clickedShapeIndex # -1 /\ clickedShapeIndex = sel
    IN  /\ dragOccurred' = FALSE
        /\ draggingVertex' = FALSE
        /\ dragVertexInitialPositions' = << >>
        /\ dragConstrainedAxis' = NULL
        /\ IF clickedShapeIndex # -1 /\ clickedInsideSelectedShape /\ editable
           THEN /\ historyStack' = saveStateForUndo(historyStack, shapes)
                /\ draggingShape' = TRUE
                /\ dragShapeStartX' = mx
                /\ dragShapeStartY' = my
                /\ selectedVertexIndices' = << >>
                /\ UNCHANGED selectedShapeIndex
           ELSE IF clickedShapeIndex # -1 /\ sel # clickedShapeIndex /\ editable
           THEN /\ selectedShapeIndex' = clickedShapeIndex
                /\ selectedVertexIndices' = << >>
                /\ draggingShape' = FALSE
                /\ UNCHANGED << historyStack, dragShapeStartX, dragShapeStartY >>
           ELSE IF clickedShapeIndex = -1 /\ sel # -1
           THEN /\ selectedShapeIndex' = -1
                /\ selectedVertexIndices' = << >>
                /\ draggingShape' = FALSE
                /\ UNCHANGED << historyStack, dragShapeStartX, dragShapeStartY >>
           ELSE /\ draggingShape' = FALSE
                /\ UNCHANGED << historyStack, selectionVars, dragShapeStartX,
                                dragShapeStartY >>
        /\ addingVertexMode' = updateUIControls(addingVertexMode, currentShipKey,
                                   currentShipDef, shapes, selectedShapeIndex')
        /\ UNCHANGED << catalogVars, designVars, zoomVars, shapes, dragVertexStartX,
                        dragVertexStartY >>

mousePressed(mx, my, shift) ==
    LET r == interactionR(currentShipKey, currentShipDef, shapes, baseDisplaySize,
                          pixelsPerUnit, maxDefinedShipSize)
        h == clickedVertexHandle(currentShipKey, currentShipDef, shapes,
                                 selectedShapeIndex, mx, my, r)
    IN  IF ~OnCanvas(mx, my, r) \/ isThargoidSelected(currentShipKey, currentShipDef)
        THEN UNCHANGED << catalogVars, designVars, shapes, historyStack, zoomVars,
                          selectionVars, flagVars, dragVars >>
        ELSE IF addingVertexMode /\ isEditable(currentShipKey, currentShipDef)
        THEN pressAddVertex(mx, my, r)
        ELSE IF h # -1
        THEN pressHandle(h, mx, my, shift)
        ELSE pressShape(mx, my)

-----------------------------------------------------------------------------
(* mouseDragged *)

\* a vertex drag with the components of the delta exchanged
applyVertexDragSwapped(vd, inits, dx, dy, k) ==
    [i \in 1 .. Len(vd) |->
        IF \E n \in 1 .. Len(inits) : inits[n].index = i - 1
        THEN LET p == inits[CHOOSE n \in 1 .. Len(inits) : inits[n].index = i - 1]
             IN  V(p.x + dy, p.y + dx)
        ELSE vd[i]]

\* dragVertexInitialPositions.forEach: every recorded vertex that still
\* exists is set to its recorded position plus the delta
RECURSIVE applyVertexDrag(_, _, _, _, _)
applyVertexDrag(vd, inits, dx, dy, k) ==
    IF k > Len(inits) THEN vd
    ELSE LET p == inits[k]
             next == IF p.index >= 0 /\ p.index < Len(vd)
                     THEN [vd EXCEPT ![p.index + 1] = V(p.x + dx, p.y + dy)]
                     ELSE vd
         IN  applyVertexDrag(next, inits, dx, dy, k + 1)

\* a layer drag that moves the first vertex only
applyShapeDragFirst(vd, dx, dy) == [vd EXCEPT ![1] = V(vd[1].x + dx, vd[1].y + dy)]

\* for (let v of shape.vertexData) { v.x += deltaRelX; v.y += deltaRelY; }
applyShapeDrag(vd, dx, dy) == [i \in 1 .. Len(vd) |-> V(vd[i].x + dx, vd[i].y + dy)]

\* the axis is detected again at every drag event past the threshold
constrainedAxisRedetect(axis, shift, detect, ax, ay) ==
    IF ~shift THEN NULL
    ELSE IF detect THEN (IF Abs(ax) > Abs(ay) THEN "x" ELSE "y")
    ELSE axis

\* dragConstrainedAxis after the shift-key logic; detect: the pointer has
\* moved past the detection threshold; ax, ay: the displacement compared
constrainedAxis(axis, shift, detect, ax, ay) ==
    IF ~shift THEN NULL
    ELSE IF axis = NULL /\ detect THEN (IF Abs(ax) > Abs(ay) THEN "x" ELSE "y")
    ELSE axis

mouseDragged(mx, my, shift) ==
    LET key == currentShipKey
        def == currentShipDef
        sel == selectedShapeIndex
        r == interactionR(key, def, shapes, baseDisplaySize, pixelsPerUnit,
                          maxDefinedShipSize)
        moved == IF draggingVertex
                 THEN PixelsSqGreater(distSq(mx, my, dragVertexStartX, dragVertexStartY), r, 4)
                 ELSE PixelsSqGreater(distSq(mx, my, dragShapeStartX, dragShapeStartY), r, 4)
        canEdit == sel # -1 /\ HasShape(shapes, sel) /\ isEditable(key, def)
        vd == shapes[sel + 1].vertexData
        \* vertex drag: the delta since the press
        vdx == mx - dragVertexStartX
        vdy == my - dragVertexStartY
        vaxis == constrainedAxis(dragConstrainedAxis, shift,
                     PixelsAbsGreater(vdx, r, 5) \/ PixelsAbsGreater(vdy, r, 5), vdx, vdy)
        vnew == applyVertexDrag(vd, dragVertexInitialPositions,
                    IF vaxis = "y" THEN 0 ELSE vdx, IF vaxis = "x" THEN 0 ELSE vdy, 1)
        \* layer drag: the delta since the previous pointer position
        sdx == mx - pmouseX
        sdy == my - pmouseY
        saxis == constrainedAxis(dragConstrainedAxis, shift,
                     PixelsSqGreater(distSq(mx, my, dragShapeStartX, dragShapeStartY), r, 25),
                     mx - dragShapeStartX, my - dragShapeStartY)
        snew == applyShapeDrag(vd, IF saxis = "y" THEN 0 ELSE sdx,
                                   IF saxis = "x" THEN 0 ELSE sdy)
    IN  IF isThargoidSelected(key, def) \/ (~draggingVertex /\ ~draggingShape)
        THEN UNCHANGED << catalogVars, designVars, shapes, historyStack, zoomVars,
                          selectionVars, flagVars, dragVars >>
        ELSE
        /\ dragOccurred' = (dragOccurred \/ moved)
        /\ IF draggingVertex /\ canEdit
           THEN /\ dragConstrainedAxis' = vaxis
                /\ shapes' = WriteVertexData(shapes, sel, vnew)
                /\ SHIP_DEFINITIONS' = CatalogAfterWrite(SHIP_DEFINITIONS, shapes, sel, vnew)
           ELSE IF draggingShape /\ canEdit
           THEN /\ dragConstrainedAxis' = saxis
                /\ shapes' = WriteVertexData(shapes, sel, snew)
                /\ SHIP_DEFINITIONS' = CatalogAfterWrite(SHIP_DEFINITIONS, shapes, sel, snew)
           ELSE UNCHANGED << dragConstrainedAxis, shapes, SHIP_DEFINITIONS >>
        /\ UNCHANGED << designVars, historyStack, zoomVars, selectionVars, draggingVertex,
                        addingVertexMode, draggingShape, dragVertexStartX, dragVertexStartY,
                        dragVertexInitialPositions, dragShapeStartX, dragShapeStartY >>

-----------------------------------------------------------------------------
(* mouseReleased *)

\* a release that keeps the initial-position buffer and the axis lock
mouseReleasedKeepingBuffer ==
    /\ draggingVertex' = FALSE
    /\ draggingShape' = FALSE
    /\ dragOccurred' = FALSE
    /\ UNCHANGED << catalogVars, designVars, shapes, historyStack, zoomVars, selectionVars,
                    addingVertexMode, dragVertexStartX, dragVertexStartY, dragShapeStartX,
                    dragShapeStartY, dragVertexInitialPositions, dragConstrainedAxis >>

mouseReleased ==
    /\ draggingVertex' = FALSE
    /\ draggingShape' = FALSE
    /\ dragVertexInitialPositions' = << >>
    /\ dragConstrainedAxis' = NULL
    /\ dragOccurred' = FALSE
    /\ UNCHANGED << catalogVars, designVars, shapes, historyStack, zoomVars, selectionVars,
                    addingVertexMode, dragVertexStartX, dragVertexStartY, dragShapeStartX,
                    dragShapeStartY >>

-----------------------------------------------------------------------------
(* keyPressed *)

\* every key counts as a delete key
IsAnyKey(k) == TRUE

IsDeleteKey(k) == k.keyCode = "DELETE" \/ k.keyCode = "BACKSPACE"

\* a check that lets every deletion through
deletionAlwaysValid(vd, selected) == TRUE

\* a check that lets a deletion leave 2 vertices
deletionLeavesTwo(vd, selected) == Len(vd) - Len(selected) >= 2

\* remainingVertices >= 3
deletionIsValid(vd, selected) == Len(vd) - Len(selected) >= 3

\* Delete / Backspace without shift: delete the selected vertices
keyDeleteVertices ==
    LET sel == selectedShapeIndex
        vd == shapes[sel + 1].vertexData
    IN  IF HasShape(shapes, sel) /\ deletionIsValid(vd, selectedVertexIndices)
        THEN /\ historyStack' = saveStateForUndo(historyStack, shapes)
             /\ shapes' = ReplaceVertexData(shapes, sel, filterOut(vd, selectedVertexIndices))
             /\ selectedVertexIndices' = << >>
             /\ draggingVertex' = FALSE
             /\ addingVertexMode' = updateUIControls(addingVertexMode, currentShipKey,
                                        currentShipDef, shapes, sel)
             /\ UNCHANGED << catalogVars, designVars, zoomVars, selectedShapeIndex,
                             draggingShape, dragOccurred, dragVars, pointerVars >>
        ELSE UNCHANGED << catalogVars, designVars, shapes, historyStack, zoomVars,
                          selectionVars, flagVars, dragVars, pointerVars >>

\* Shift + Delete / Backspace that removes the selected layer and leaves the
\* selection and the drag as they are
keyDeleteShapeOnly ==
    LET sel == selectedShapeIndex
    IN  IF Len(shapes) > sel /\ sel >= 0
        THEN /\ historyStack' = saveStateForUndo(historyStack, shapes)
             /\ shapes' = spliceOut(shapes, sel)
             /\ selectedShapeIndex' = IF sel < Len(shapes') THEN sel ELSE -1
             /\ selectedVertexIndices' = << >>
             /\ UNCHANGED << catalogVars, designVars, zoomVars, flagVars, dragVars,
                             pointerVars >>
        ELSE UNCHANGED << catalogVars, designVars, shapes, historyStack, zoomVars,
                          selectionVars, flagVars, dragVars, pointerVars >>

\* Shift + Delete / Backspace: delete the selected layer
keyDeleteShape ==
    LET sel == selectedShapeIndex
    IN  IF Len(shapes) > sel /\ sel >= 0
        THEN /\ historyStack' = saveStateForUndo(historyStack, shapes)
             /\ shapes' = spliceOut(shapes, sel)
             /\ selectedShapeIndex' = -1
             /\ selectedVertexIndices' = << >>
             /\ draggingVertex' = FALSE
             /\ draggingShape' = FALSE
             /\ addingVertexMode' = updateUIControls(
                    updateUIControls(addingVertexMode, currentShipKey, currentShipDef,
                                     shapes, sel),
                    currentShipKey, currentShipDef, shapes', -1)
             /\ UNCHANGED << catalogVars, designVars, zoomVars, dragOccurred, dragVars,
                             pointerVars >>
        ELSE UNCHANGED << catalogVars, designVars, shapes, historyStack, zoomVars,
                          selectionVars, flagVars, dragVars, pointerVars >>

\* a delete key that deletes nothing falls through to the undo
keyPressedFallingThrough(k) ==
    IF isThargoidSelected(currentShipKey, currentShipDef)
    THEN UNCHANGED << catalogVars, designVars, shapes, historyStack, zoomVars,
                      selectionVars, flagVars, dragVars, pointerVars >>
    ELSE IF IsDeleteKey(k) /\ ~k.shift /\ selectedShapeIndex # -1
            /\ Len(selectedVertexIndices) > 0
            /\ isEditable(currentShipKey, currentShipDef)
    THEN keyDeleteVertices
    ELSE IF IsDeleteKey(k) /\ k.shift /\ selectedShapeIndex # -1
            /\ isEditable(currentShipKey, currentShipDef)
    THEN keyDeleteShape
    ELSE IF (k.key = "z" /\ k.ctrl) \/ IsDeleteKey(k)
    THEN undoLastChange
    ELSE UNCHANGED << catalogVars, designVars, shapes, historyStack, zoomVars,
                      selectionVars, flagVars, dragVars, pointerVars >>

keyPressed(k) ==
    IF isThargoidSelected(currentShipKey, currentShipDef)
    THEN UNCHANGED << catalogVars, designVars, shapes, historyStack, zoomVars,
                      selectionVars, flagVars, dragVars, pointerVars >>
    ELSE IF IsDeleteKey(k) /\ ~k.shift /\ selectedShapeIndex # -1
            /\ Len(selectedVertexIndices) > 0
            /\ isEditable(currentShipKey, currentShipDef)
    THEN keyDeleteVertices
    ELSE IF IsDeleteKey(k) /\ k.shift /\ selectedShapeIndex # -1
            /\ isEditable(currentShipKey, currentShipDef)
    THEN keyDeleteShape
    ELSE IF k.key = "z" /\ k.ctrl
    THEN undoLastChange
    ELSE UNCHANGED << catalogVars, designVars, shapes, historyStack, zoomVars,
                      selectionVars, flagVars, dragVars, pointerVars >>

-----------------------------------------------------------------------------
(* toggleAddVertexMode *)

\* a toggle that leaves the selection and the drag flags as they are
toggleAddVertexModeOnly ==
    /\ addingVertexMode' =
           (/\ selectedShapeIndex # -1
            /\ isEditable(currentShipKey, currentShipDef)
            /\ HasShape(shapes, selectedShapeIndex)
            /\ ~addingVertexMode)
    /\ UNCHANGED << catalogVars, designVars, shapes, historyStack, zoomVars,
                    selectionVars, draggingVertex, draggingShape, dragOccurred,
                    dragVars, pointerVars >>

toggleAddVertexMode ==
    IF selectedShapeIndex # -1 /\ isEditable(currentShipKey, currentShipDef)
       /\ HasShape(shapes, selectedShapeIndex)
    THEN /\ addingVertexMode' = updateUIControls(~addingVertexMode, currentShipKey,
                                    currentShipDef, shapes, selectedShapeIndex)
         /\ IF ~addingVertexMode
            THEN /\ draggingVertex' = FALSE
                 /\ selectedVertexIndices' = << >>
                 /\ draggingShape' = FALSE
            ELSE UNCHANGED << draggingVertex, selectedVertexIndices, draggingShape >>
         /\ UNCHANGED << catalogVars, designVars, shapes, historyStack, zoomVars,
                         selectedShapeIndex, dragOccurred, dragVars, pointerVars >>
    ELSE /\ addingVertexMode' = FALSE
         /\ UNCHANGED << catalogVars, designVars, shapes, historyStack, zoomVars,
                         selectionVars, draggingVertex, draggingShape, dragOccurred,
                         dragVars, pointerVars >>

-----------------------------------------------------------------------------
(* Style updates.  A colour picker's value is "#rrggbb", modelled as the    *)
(* six hex digits; the stroke weight input's value is a string of           *)
(* characters.                                                              *)

HexDigits == << "0", "1", "2", "3", "4", "5", "6", "7", "8", "9",
                "a", "b", "c", "d", "e", "f" >>

HexVal(c) == (CHOOSE i \in 1 .. Len(HexDigits) : HexDigits[i] = c) - 1

\* [red(col), green(col), blue(col)] of color("#rrggbb")
colorOfHex(hex) ==
    << 16 * HexVal(hex[1]) + HexVal(hex[2]),
       16 * HexVal(hex[3]) + HexVal(hex[4]),
       16 * HexVal(hex[5]) + HexVal(hex[6]) >>

IsDigit(c) == c \in {"0", "1", "2", "3", "4", "5", "6", "7", "8", "9"}

\* the digits of text from position i on, as [val, scale, next]: the number
\* read, the power of ten of its last digit, the first position not read
RECURSIVE ReadDigits(_, _, _, _)
ReadDigits(text, i, val, count) ==
    IF i <= Len(text) /\ IsDigit(text[i])
    THEN ReadDigits(text, i + 1, 10 * val + HexVal(text[i]), count + 1)
    ELSE [val |-> val, count |-> count, next |-> i]

\* parseFloat(text) for a sign, digits, a point and at most two decimals:
\* [nan, val] with val in hundredths
parseFloat(text) ==
    LET neg == Len(text) > 0 /\ text[1] = "-"
        start == IF Len(text) > 0 /\ text[1] \in {"-", "+"} THEN 2 ELSE 1
        whole == ReadDigits(text, start, 0, 0)
        hasPoint == whole.next <= Len(text) /\ text[whole.next] = "."
        frac == IF hasPoint THEN ReadDigits(text, whole.next + 1, 0, 0)
                ELSE [val |-> 0, count |-> 0, next |-> whole.next]
        hundredths == IF frac.count = 0 THEN 0
                      ELSE IF frac.count = 1 THEN 10 * frac.val
                      ELSE frac.val
        magnitude == whole.val * WeightUnit + hundredths
    IN  IF whole.count = 0 /\ frac.count = 0 THEN [nan |-> TRUE, val |-> 0]
        ELSE [nan |-> FALSE, val |-> IF neg THEN -magnitude ELSE magnitude]

\* parseFloat(strokeWeightInput.value()) without the || 0
strokeWeightUnguarded(text) ==
    LET f == parseFloat(text)
    IN  [kind |-> IF f.nan THEN "NaN" ELSE "number", val |-> IF f.nan THEN 0 ELSE f.val]

\* parseFloat(strokeWeightInput.value()) || 0: NaN is falsy and gives 0
strokeWeightOf(text) ==
    LET f == parseFloat(text)
    IN  [kind |-> "number", val |-> IF f.nan THEN 0 ELSE f.val]

StyleTarget ==
    selectedShapeIndex # -1 /\ HasShape(shapes, selectedShapeIndex)
    /\ isEditable(currentShipKey, currentShipDef)

\* the frame of the three style handlers: everything but shapes, history and
\* add-vertex mode
StyleFrame ==
    UNCHANGED << catalogVars, designVars, zoomVars, selectionVars, draggingVertex,
                 draggingShape, dragOccurred, dragVars, pointerVars >>

\* a style change that takes no snapshot
StyleNoSnapshot ==
    /\ historyStack' = historyStack
    /\ addingVertexMode' = updateUIControls(addingVertexMode, currentShipKey,
                               currentShipDef, shapes, selectedShapeIndex)

StyleSnapshot ==
    /\ historyStack' = saveStateForUndo(historyStack, shapes)
    /\ addingVertexMode' = updateUIControls(addingVertexMode, currentShipKey,
                               currentShipDef, shapes, selectedShapeIndex)

updateSelectedShapeFill(hex) ==
    IF StyleTarget
    THEN /\ StyleSnapshot
         /\ shapes' = [shapes EXCEPT ![selectedShapeIndex + 1].fillColor = colorOfHex(hex)]
         /\ StyleFrame
    ELSE UNCHANGED << shapes, historyStack, addingVertexMode >> /\ StyleFrame

updateSelectedShapeStroke(hex) ==
    IF StyleTarget
    THEN /\ StyleSnapshot
         /\ shapes' = [shapes EXCEPT ![selectedShapeIndex + 1].strokeColor = colorOfHex(hex)]
         /\ StyleFrame
    ELSE UNCHANGED << shapes, historyStack, addingVertexMode >> /\ StyleFrame

updateSelectedShapeStrokeWeight(text) ==
    IF StyleTarget
    THEN /\ StyleSnapshot
         /\ shapes' = [shapes EXCEPT
                          ![selectedShapeIndex + 1].strokeW = strokeWeightOf(text).val,
                          ![selectedShapeIndex + 1].strokeWKind = strokeWeightOf(text).kind]
         /\ StyleFrame
    ELSE UNCHANGED << shapes, historyStack, addingVertexMode >> /\ StyleFrame

-----------------------------------------------------------------------------
(* straightenMirroredVertices.  The averages it takes are halves, so it is  *)
(* computed on even coordinates: the caller passes coordinates and the      *)
(* threshold in half grid units, and the result is in the same units.       *)

Doubled(vd) == [i \in 1 .. Len(vd) |-> V(2 * vd[i].x, 2 * vd[i].y)]

AllEven(vd) == \A i \in 1 .. Len(vd) : vd[i].x % 2 = 0 /\ vd[i].y % 2 = 0

Halved(vd) == [i \in 1 .. Len(vd) |-> V(vd[i].x \div 2, vd[i].y \div 2)]

\* 1. snap points close to the axes
snapToAxes(vd, threshold) ==
    [i \in 1 .. Len(vd) |->
        V(IF 2 * Abs(vd[i].x) < threshold /\ vd[i].x # 0 THEN 0 ELSE vd[i].x,
          IF 2 * Abs(vd[i].y) < threshold /\ vd[i].y # 0 THEN 0 ELSE vd[i].y)]

isXMirror(vi, vj, threshold) ==
    /\ 4 * Abs(vi.y) > threshold \/ 4 * Abs(vj.y) > threshold
    /\ Abs(vi.x - vj.x) < threshold
    /\ Abs(vi.y + vj.y) < threshold

isYMirror(vi, vj, threshold) ==
    /\ 4 * Abs(vi.x) > threshold \/ 4 * Abs(vj.x) > threshold
    /\ Abs(vi.x + vj.x) < threshold
    /\ Abs(vi.y - vj.y) < threshold

\* Math.sign(a) || (b === 0 ? 1 : -Math.sign(b)) || 1
mirrorSign(a, b) ==
    IF Sign(a) # 0 THEN Sign(a)
    ELSE IF b = 0 THEN 1
    ELSE -Sign(b)

\* the pair (i, j) after the adjustment (positions are 0-based)
adjustPair(vd, i, j, threshold) ==
    LET vi == vd[i + 1]
        vj == vd[j + 1]
    IN  IF isXMirror(vi, vj, threshold)
        THEN LET newX == (vi.x + vj.x) \div 2
                 newAbsY == (Abs(vi.y) + Abs(vj.y)) \div 2
                 sign_i == mirrorSign(vi.y, vj.y)
             IN  [vd EXCEPT ![i + 1] = V(newX, newAbsY * sign_i),
                            ![j + 1] = V(newX, -newAbsY * sign_i)]
        ELSE LET newY == (vi.y + vj.y) \div 2
                 newAbsX == (Abs(vi.x) + Abs(vj.x)) \div 2
                 sign_i == mirrorSign(vi.x, vj.x)
             IN  [vd EXCEPT ![i + 1] = V(newAbsX * sign_i, newY),
                            ![j + 1] = V(-newAbsX * sign_i, newY)]

\* the inner loop: the first unprocessed j >= from that mirrors i, or -1
RECURSIVE firstMirror(_, _, _, _, _)
firstMirror(vd, processed, i, from, threshold) ==
    IF from >= Len(vd) THEN -1
    ELSE IF from \notin processed
            /\ (isXMirror(vd[i + 1], vd[from + 1], threshold)
                \/ isYMirror(vd[i + 1], vd[from + 1], threshold))
         THEN from
         ELSE firstMirror(vd, processed, i, from + 1, threshold)

\* 2. find and adjust mirrored pairs: the outer loop from i on
RECURSIVE adjustPairs(_, _, _, _)
adjustPairs(vd, processed, i, threshold) ==
    IF i >= Len(vd) THEN vd
    ELSE IF i \in processed THEN adjustPairs(vd, processed, i + 1, threshold)
    ELSE LET j == firstMirror(vd, processed, i, i + 1, threshold)
         IN  IF j = -1 THEN adjustPairs(vd, processed, i + 1, threshold)
             ELSE adjustPairs(adjustPair(vd, i, j, threshold), processed \cup {i, j},
                              i + 1, threshold)

straightenMirroredVertices(vd, threshold) ==
    IF Len(vd) < 2 THEN vd
    ELSE adjustPairs(snapToAxes(vd, threshold), {}, 0, threshold)

\* the selected layer's vertices after the click, in half grid units
straightenedHalves(vd) == straightenMirroredVertices(Doubled(vd), 2 * straightenThreshold)

handleStraightenClick ==
    LET sel == selectedShapeIndex
        after == straightenedHalves(shapes[sel + 1].vertexData)
    IN  IF sel # -1 /\ isEditable(currentShipKey, currentShipDef) /\ HasShape(shapes, sel)
        THEN /\ AllEven(after)
             /\ historyStack' = saveStateForUndo(historyStack, shapes)
             /\ addingVertexMode' = updateUIControls(addingVertexMode, currentShipKey,
                                        currentShipDef, shapes, sel)
             /\ shapes' = WriteVertexData(shapes, sel, Halved(after))
             /\ SHIP_DEFINITIONS' = CatalogAfterWrite(SHIP_DEFINITIONS, shapes, sel,
                                                      Halved(after))
             /\ UNCHANGED << designVars, zoomVars, selectionVars, draggingVertex,
                             draggingShape, dragOccurred, dragVars, pointerVars >>
        ELSE UNCHANGED << catalogVars, designVars, shapes, historyStack, zoomVars,
                          selectionVars, flagVars, dragVars, pointerVars >>

-----------------------------------------------------------------------------
(* exportDrawFunctionCode, Format 1: the first layer's vertex data as       *)
(* written with toFixed(4).                                                 *)

\* v.toFixed(4) of a grid coordinate: sign, whole part, four decimals.  A
\* grid unit is 250 ten-thousandths, so no rounding takes place.
toFixed4(g) ==
    LET tenThousandths == Abs(g) * (10000 \div CoordUnit)
    IN  [neg |-> g < 0, whole |-> tenThousandths \div 10000,
         decimals |-> tenThousandths % 10000]

\* the number a toFixed(4) string denotes, as a grid coordinate times 250
valueOfFixed4(f) ==
    (IF f.neg THEN -1 ELSE 1) * (f.whole * 10000 + f.decimals)

exportVertexData(shp) ==
    IF Len(shp) > 0 /\ Len(shp[1].vertexData) >= 2
    THEN [i \in 1 .. Len(shp[1].vertexData) |->
             [x |-> toFixed4(shp[1].vertexData[i].x),
              y |-> toFixed4(shp[1].vertexData[i].y)]]
    ELSE << >>

-----------------------------------------------------------------------------
(* The events the browser and p5 deliver, with the inputs the handlers read *)

\* pointer positions, relative to the canvas centre, in grid units of the
\* current interaction radius
Points ==
    { << 0, 3 >>, << 8, 8 >>, << 36, 0 >>, << -28, 32 >>, << -36, 0 >>,
      << 60, 60 >>, << 0, 400 >> }

Keys ==
    { [keyCode |-> "DELETE", key |-> "Delete", shift |-> FALSE, ctrl |-> FALSE],
      [keyCode |-> "BACKSPACE", key |-> "Backspace", shift |-> FALSE, ctrl |-> FALSE],
      [keyCode |-> "BACKSPACE", key |-> "Backspace", shift |-> TRUE, ctrl |-> FALSE],
      [keyCode |-> "Z", key |-> "z", shift |-> FALSE, ctrl |-> TRUE],
      [keyCode |-> "Z", key |-> "z", shift |-> FALSE, ctrl |-> FALSE] }

PickerValues == { << "f", "f", "8", "0", "0", "0" >> }

WeightTexts == { << "2" >>, << "-", "1" >>, << "a" >> }

\* p5 calls mousePressed when a button goes down anywhere in the window,
\* mouseDragged when the pointer moves while it is down and mouseReleased
\* when it goes up; pmouseX, pmouseY hold the position of the previous
\* pointer event
PointerMoves(mx, my) ==
    /\ pmouseX' = mx
    /\ pmouseY' = my

EventMousePressed ==
    \E p \in Points, shift \in BOOLEAN :
        /\ mousePressed(p[1], p[2], shift)
        /\ PointerMoves(p[1], p[2])
        /\ mouseIsPressed' = TRUE
        /\ lastEvent' = Ev("mousePressed", p[1], p[2], shift, "", << >>)

EventMouseDragged ==
    \E p \in Points, shift \in BOOLEAN :
        /\ mouseDragged(p[1], p[2], shift)
        /\ PointerMoves(p[1], p[2])
        /\ UNCHANGED mouseIsPressed
        /\ lastEvent' = Ev("mouseDragged", p[1], p[2], shift, "", << >>)

EventMouseReleased ==
    /\ mouseReleased
    /\ mouseIsPressed' = FALSE
    /\ UNCHANGED << pmouseX, pmouseY >>
    /\ lastEvent' = Called("mouseReleased")

\* an event of a control of the page
ControlEvent(type, arg, text) ==
    /\ lastEvent' = Ev(type, 0, 0, FALSE, arg, text)
    /\ UNCHANGED mouseIsPressed

EventKeyPressed ==
    \E k \in Keys :
        /\ keyPressed(k)
        /\ lastEvent' = Ev("keyPressed", 0, 0, k.shift, k.keyCode,
                           IF k.ctrl THEN << "ctrl", k.key >> ELSE << k.key >>)
        /\ UNCHANGED mouseIsPressed

EventUndoButton ==
    /\ undoLastChange
    /\ ControlEvent("undoLastChange", "", << >>)

EventShipSelector ==
    \E value \in SelectorOptions :
        /\ handleShipSelection(value)
        /\ ControlEvent("handleShipSelection", value, << >>)

EventAddShapeButton ==
    /\ addNewShape
    /\ ControlEvent("addNewShape", "", << >>)

EventAddVertexButton ==
    /\ toggleAddVertexMode
    /\ ControlEvent("toggleAddVertexMode", "", << >>)

EventStraightenButton ==
    /\ handleStraightenClick
    /\ ControlEvent("handleStraightenClick", "", << >>)

EventFillPicker ==
    \E hex \in PickerValues :
        /\ updateSelectedShapeFill(hex)
        /\ ControlEvent("updateSelectedShapeFill", "", hex)

EventStrokePicker ==
    \E hex \in PickerValues :
        /\ updateSelectedShapeStroke(hex)
        /\ ControlEvent("updateSelectedShapeStroke", "", hex)

EventStrokeWeightInput ==
    \E text \in WeightTexts :
        /\ updateSelectedShapeStrokeWeight(text)
        /\ ControlEvent("updateSelectedShapeStrokeWeight", "", text)

\* the zoom buttons
EventZoomInButton ==
    /\ zoomIn
    /\ ControlEvent("zoomIn", "", << >>)

EventZoomOutButton ==
    /\ zoomOut
    /\ ControlEvent("zoomOut", "", << >>)

\* an event of an exploration bounded to `bound` events
Counted(event, bound) ==
    /\ eventCount < bound
    /\ eventCount' = eventCount + 1
    /\ event

Uncounted(event) ==
    /\ event
    /\ UNCHANGED eventCount

\* Pointer positions are kept in units of the interaction radius, so the
\* zoom changes between gestures only, within the levels 0 .. maxExp
ZoomableTo(maxExp) ==
    /\ ~draggingVertex /\ ~draggingShape
    /\ baseDisplaySize.anchor = initialBaseDisplaySize
    /\ baseDisplaySize.exp \in 0 .. maxExp

-----------------------------------------------------------------------------
(* Spec: every handler, every input, MaxEvents events deep.  The pointer    *)
(* has one button: a press comes while it is up, drags and the release      *)
(* while it is down, and the controls of the page are operated while it is  *)
(* up (a click on a control follows its own press and release).  Keys come  *)
(* at any time.                                                             *)

ButtonUp(event, bound) == Counted(~mouseIsPressed /\ event, bound)

ButtonDown(event, bound) == Counted(mouseIsPressed /\ event, bound)

Next ==
    \/ ButtonUp(EventMousePressed, MaxEvents)
    \/ ButtonDown(EventMouseDragged, MaxEvents)
    \/ ButtonDown(EventMouseReleased, MaxEvents)
    \/ Counted(EventKeyPressed, MaxEvents)
    \/ ButtonUp(EventUndoButton, MaxEvents)
    \/ ButtonUp(EventShipSelector, MaxEvents)
    \/ ButtonUp(EventAddShapeButton, MaxEvents)
    \/ ButtonUp(EventAddVertexButton, MaxEvents)
    \/ ButtonUp(EventStraightenButton, MaxEvents)
    \/ ButtonUp(EventFillPicker, MaxEvents)
    \/ ButtonUp(EventStrokePicker, MaxEvents)
    \/ ButtonUp(EventStrokeWeightInput, MaxEvents)
    \/ ButtonUp(ZoomableTo(MaxZoomExp - 1) /\ EventZoomInButton, MaxEvents)
    \/ ButtonUp(ZoomableTo(MaxZoomExp) /\ baseDisplaySize.exp > 0 /\ EventZoomOutButton,
                MaxEvents)

Spec == Init /\ [][Next]_vars

-----------------------------------------------------------------------------
(* SpecZoom: the zoom buttons over the whole clamp range, on any design     *)
(* the buttons and the selector build without the pointer                   *)

NextZoom ==
    \/ Uncounted(EventZoomInButton)
    \/ Uncounted(EventZoomOutButton)
    \/ Uncounted(EventShipSelector)
    \/ Uncounted(Len(shapes) < 2 /\ EventAddShapeButton)
    \/ Uncounted(EventUndoButton)

SpecZoom == Init /\ [][NextZoom]_vars

-----------------------------------------------------------------------------
(* SpecHistory: a blank design, add-layer and undo, deep enough to fill     *)
(* the history                                                              *)

NextHistory ==
    \/ Counted(eventCount = 0 /\ handleShipSelection(NewBlank)
               /\ ControlEvent("handleShipSelection", NewBlank, << >>),
               MaxHistoryEvents)
    \/ Counted(EventAddShapeButton, MaxHistoryEvents)
    \/ Counted(EventUndoButton, MaxHistoryEvents)

SpecHistory == Init /\ [][NextHistory]_vars

-----------------------------------------------------------------------------
(* SpecPointer: presses on one or two layers at several zoom levels *)

PointerPoints ==
    { << 0, 3 >>, << 20, 0 >>, << 44, 0 >>, << 48, 0 >>, << 0, 20 >> }

EventPointerPressed ==
    \E p \in PointerPoints, shift \in BOOLEAN :
        /\ mousePressed(p[1], p[2], shift)
        /\ PointerMoves(p[1], p[2])
        /\ mouseIsPressed' = TRUE
        /\ lastEvent' = Ev("mousePressed", p[1], p[2], shift, "", << >>)

NextPointer ==
    \/ ButtonUp(EventPointerPressed, MaxPointerEvents)
    \/ Uncounted(mouseIsPressed /\ EventMouseReleased)
    \/ ButtonUp(EventShipSelector, MaxPointerEvents)
    \/ ButtonUp(Len(shapes) < 2 /\ EventAddShapeButton, MaxPointerEvents)
    \/ ButtonUp(EventAddVertexButton, MaxPointerEvents)
    \/ ButtonUp(ZoomableTo(MaxPointerZoomExp - 1) /\ EventZoomInButton, MaxPointerEvents)
    \/ ButtonUp(ZoomableTo(MaxPointerZoomExp) /\ baseDisplaySize.exp > 0
                /\ EventZoomOutButton, MaxPointerEvents)

SpecPointer == Init /\ [][NextPointer]_vars

-----------------------------------------------------------------------------
(* SpecAnyOrder: every handler at any time, whatever the pointer's button   *)
(* does (a release that is never delivered, a control operated from the     *)
(* keyboard while a drag is in progress)                                    *)

NextAnyOrder ==
    \/ Counted(EventMousePressed, MaxAnyOrderEvents)
    \/ Counted(EventMouseDragged, MaxAnyOrderEvents)
    \/ Counted(EventMouseReleased, MaxAnyOrderEvents)
    \/ Counted(EventKeyPressed, MaxAnyOrderEvents)
    \/ Counted(EventUndoButton, MaxAnyOrderEvents)
    \/ Counted(EventShipSelector, MaxAnyOrderEvents)
    \/ Counted(EventAddShapeButton, MaxAnyOrderEvents)
    \/ Counted(EventAddVertexButton, MaxAnyOrderEvents)
    \/ Counted(EventStraightenButton, MaxAnyOrderEvents)
    \/ Counted(EventFillPicker, MaxAnyOrderEvents)
    \/ Counted(EventStrokePicker, MaxAnyOrderEvents)
    \/ Counted(EventStrokeWeightInput, MaxAnyOrderEvents)

SpecAnyOrder == Init /\ [][NextAnyOrder]_vars

-----------------------------------------------------------------------------
(* SpecStraighten: the vertices of one new layer dragged over a grid of     *)
(* positions around the axes, and the straighten button                     *)

MaxStraightenEvents == 4

StraightenPoints ==
    { << -8, 8 >>, << 8, 8 >>, << 0, -8 >>, << 6, 8 >>, << -6, -8 >>, << 2, 0 >>,
      << 8, -6 >> }

EventStraightenPressed ==
    \E p \in StraightenPoints :
        /\ mousePressed(p[1], p[2], FALSE)
        /\ PointerMoves(p[1], p[2])
        /\ mouseIsPressed' = TRUE
        /\ lastEvent' = Ev("mousePressed", p[1], p[2], FALSE, "", << >>)

EventStraightenDragged ==
    \E p \in StraightenPoints :
        /\ mouseDragged(p[1], p[2], FALSE)
        /\ PointerMoves(p[1], p[2])
        /\ UNCHANGED mouseIsPressed
        /\ lastEvent' = Ev("mouseDragged", p[1], p[2], FALSE, "", << >>)

NextStraighten ==
    \/ Uncounted(eventCount = 0 /\ currentShipKey # NewBlank
                 /\ handleShipSelection(NewBlank)
                 /\ ControlEvent("handleShipSelection", NewBlank, << >>))
    \/ Uncounted(Len(shapes) < 1 /\ ~mouseIsPressed /\ EventAddShapeButton)
    \/ ButtonUp(EventStraightenPressed, MaxStraightenEvents)
    \/ ButtonDown(EventStraightenDragged, MaxStraightenEvents)
    \/ Uncounted(mouseIsPressed /\ EventMouseReleased)
    \/ ButtonUp(EventStraightenButton, MaxStraightenEvents)
    \/ ButtonUp(EventUndoButton, MaxStraightenEvents)

SpecStraighten == Init /\ [][NextStraighten]_vars

-----------------------------------------------------------------------------
(* Vocabulary of the properties *)

\* deep equality of two Shape Sets: the same layers, whichever arrays hold them
DeepEqual(a, b) == JsonCopyShapes(a) = JsonCopyShapes(b)

Top(stack) == stack[Len(stack)]

Pop(stack) == SubSeq(stack, 1, Len(stack) - 1)

\* the step just taken ran undoLastChange: the Undo button, or Ctrl/Cmd+Z
\* outside the Thargoid view
UndoStep ==
    \/ lastEvent'.type = "undoLastChange"
    \/ /\ lastEvent'.type = "keyPressed"
       /\ lastEvent'.text = << "ctrl", "z" >>
       /\ ~isThargoidSelected(currentShipKey, currentShipDef)

LoadStep == lastEvent'.type = "handleShipSelection"

\* the selected layer's vertices with every dragged vertex put back where
\* the press recorded it
BeforeVertexDrag(vd, inits) == applyVertexDrag(vd, inits, 0, 0, 1)

\* vd moved as a whole so that its first vertex lies on `first`
MovedOnto(vd, first) == applyShapeDrag(vd, first.x - vd[1].x, first.y - vd[1].y)

\* while a drag gesture is in progress the last History Entry is the Shape
\* Set as it was when the gesture began
GestureSnapshot ==
    (draggingVertex \/ draggingShape) =>
        /\ historyStack # << >>
        /\ Len(Top(historyStack)) = Len(shapes)
        /\ HasShape(shapes, selectedShapeIndex)
        /\ LET sel == selectedShapeIndex + 1
               before == Top(historyStack)[sel].vertexData
               now == shapes[sel].vertexData
           IN  /\ Len(before) = Len(now)
               /\ IF draggingVertex
                  THEN before = BeforeVertexDrag(now, dragVertexInitialPositions)
                  ELSE before = MovedOnto(now, before[1])
               /\ DeepEqual([shapes EXCEPT ![sel].vertexData = before],
                            Top(historyStack))

C2_HistoryBound ==
    /\ Len(historyStack) <= maxHistorySize
    /\ (eventCount = maxHistorySize + 6 /\ Len(shapes) = maxHistorySize + 5) =>
           /\ Len(historyStack) = maxHistorySize
           /\ \A i \in 1 .. Len(historyStack) :
                  DeepEqual(historyStack[i], [j \in 1 .. i + 4 |-> DefaultShape])

\* the history after the 35th add-layer in a row
C2_Witness ==
    /\ eventCount = maxHistorySize + 6
    /\ Len(shapes) = maxHistorySize + 5
    /\ Len(historyStack) = maxHistorySize
    /\ lastEvent.type = "addNewShape"

\* a Delete or Backspace key press without shift
DeleteVertexKeyStep ==
    /\ lastEvent'.type = "keyPressed"
    /\ lastEvent'.arg \in {"DELETE", "BACKSPACE"}
    /\ ~lastEvent'.shift

\* C3: a delete-vertex key press that would leave the selected layer with
\* fewer than 3 vertices changes neither the Shape Set, nor the layer and
\* vertex selection, nor the history.
C3_DeleteRejected ==
    [][ ( /\ DeleteVertexKeyStep
          /\ HasShape(shapes, selectedShapeIndex)
          /\ Len(shapes[selectedShapeIndex + 1].vertexData)
                 - Len(selectedVertexIndices) < 3 )
        => UNCHANGED << shapes, selectedShapeIndex, selectedVertexIndices,
                        historyStack >> ]_vars

\* the Sidewinder with vertices 1 and 2 selected, right after the Delete key
C3_Witness ==
    /\ lastEvent.type = "keyPressed"
    /\ lastEvent.arg = "DELETE"
    /\ ~lastEvent.shift
    /\ currentShipKey = "Sidewinder"
    /\ selectedShapeIndex = 0
    /\ selectedVertexIndices = << 1, 2 >>
    /\ Len(shapes) = 1
    /\ Len(shapes[1].vertexData) = 4

\* the step just taken loaded the base definition `key`, which has vertices
\* and is not the Thargoid
Loaded(key) ==
    /\ lastEvent.type = "handleShipSelection"
    /\ lastEvent.arg = key
    /\ key \in CatalogKeys
    /\ Catalog[key].vertexData # << >>
    /\ ~(key = "Thargoid" /\ Catalog[key].name = "Thargoid Interceptor")

\* C4: the catalog is never changed, so every load of a base definition
\* yields the layer its first load yielded.
C4_CatalogUnchanged ==
    /\ SHIP_DEFINITIONS = Catalog
    /\ \A key \in CatalogKeys :
           Loaded(key) => DeepEqual(shapes, << LoadLayer(Catalog[key]) >>)

\* a loaded layer that a drag has moved away from its definition
C4_Witness ==
    /\ lastEvent.type = "mouseDragged"
    /\ currentShipKey = "Sidewinder"
    /\ Len(shapes) = 1
    /\ shapes[1].vertexData # Catalog["Sidewinder"].vertexData

\* C5: a load leaves the history empty, the Shape Set rebuilt from the
\* selection alone, and the vertex selection, add-vertex mode, both drag
\* flags and the axis lock reset; an undo on the empty history it leaves
\* changes no layer.
C5_LoadResets ==
    [][ /\ LoadStep =>
               /\ historyStack' = << >>
               /\ selectedVertexIndices' = << >>
               /\ ~addingVertexMode'
               /\ ~draggingVertex'
               /\ ~draggingShape'
               /\ dragConstrainedAxis' = NULL
               /\ shapes' = IF \E key \in CatalogKeys : Loaded(key)'
                            THEN << LoadLayer(SHIP_DEFINITIONS[lastEvent'.arg]) >>
                            ELSE << >>
        /\ (UndoStep /\ historyStack = << >>) => shapes' = shapes ]_vars

\* a load that came in the middle of a vertex drag of an edited design
C5_Witness ==
    /\ lastEvent.type = "handleShipSelection"
    /\ dragVertexInitialPositions # << >>
    /\ historyStack = << >>

\* C6: right after the load of a base definition with vertices, the Shape
\* Set is one layer with the definition's vertexData, fillColor,
\* strokeColor and strokeW, layer 0 is selected, and the vertex data the
\* export writes (toFixed(4)) denotes the definition's vertexData.
C6_LoadRoundTrip ==
    \A key \in CatalogKeys :
        Loaded(key) =>
            LET def == SHIP_DEFINITIONS[key]
                out == exportVertexData(shapes)
            IN  /\ Len(shapes) = 1
                /\ shapes[1].vertexData = def.vertexData
                /\ shapes[1].fillColor = def.fillColor
                /\ shapes[1].strokeColor = def.strokeColor
                /\ shapes[1].strokeW = def.strokeW
                /\ selectedShapeIndex = 0
                /\ Len(out) = Len(def.vertexData)
                /\ \A i \in 1 .. Len(out) :
                       /\ valueOfFixed4(out[i].x) = def.vertexData[i].x * (10000 \div CoordUnit)
                       /\ valueOfFixed4(out[i].y) = def.vertexData[i].y * (10000 \div CoordUnit)

\* the Gnat Interceptor, whose strokeW is not the default, just loaded
C6_Witness ==
    /\ Loaded("GnatInterceptor")
    /\ Len(shapes) = 1
    /\ shapes[1].strokeW = 80
    /\ selectedShapeIndex = 0

\* the step just taken was a press at (lastEvent'.x, lastEvent'.y)
PressStep == lastEvent'.type = "mousePressed"

\* interaction_r in the state the press finds
PressRadius ==
    interactionR(currentShipKey, currentShipDef, shapes, baseDisplaySize, pixelsPerUnit,
                 maxDefinedShipSize)

\* the press lies on the canvas, outside the Thargoid view
PressAccepted ==
    /\ OnCanvas(lastEvent'.x, lastEvent'.y, PressRadius)
    /\ ~isThargoidSelected(currentShipKey, currentShipDef)

\* layer i (0-based) contains the point pressed
PressInside(i) ==
    /\ Len(shapes[i + 1].vertexData) >= 3
    /\ isPointInPolygon(lastEvent'.x, lastEvent'.y, shapes[i + 1].vertexData)

\* a press outside add-vertex mode that hits no handle of the selected
\* layer leaves the lowest-index layer containing the point selected
LowestLayerWins ==
    ( /\ PressStep
      /\ ~addingVertexMode
      /\ clickedVertexHandle(currentShipKey, currentShipDef, shapes, selectedShapeIndex,
                             lastEvent'.x, lastEvent'.y, PressRadius) = -1 )
    => \A i \in 0 .. Len(shapes) - 1 :
           (PressInside(i) /\ \A j \in 0 .. i - 1 : ~PressInside(j))
               => selectedShapeIndex' = i

\* C7: hit-test priority, for a press on the canvas: outside add-vertex
\* mode and off the handles of the selected layer, the lowest-index layer
\* containing the point is the selected layer after the press, whichever
\* layer was selected before.
C7_HitTestPriority == [][PressAccepted => LowestLayerWins]_vars

\* C7 as stated, for every press: a press beyond the canvas edge, inside a
\* layer that a zoomed-in design extends there, is ignored.
C7_AnyPress == [][LowestLayerWins]_vars

\* two layers that both contain the point pressed, layer 0 selected by a
\* press that started no drag: another layer or none was selected before
C7_Witness ==
    /\ lastEvent.type = "mousePressed"
    /\ Len(shapes) = 2
    /\ selectedShapeIndex = 0
    /\ ~draggingShape /\ ~draggingVertex
    /\ \A i \in 1 .. 2 : isPointInPolygon(lastEvent.x, lastEvent.y, shapes[i].vertexData)

\* the edge an add-vertex press at the point pressed inserts on, or -1
PressEdge ==
    IF addingVertexMode /\ isEditable(currentShipKey, currentShipDef)
       /\ HasShape(shapes, selectedShapeIndex)
    THEN addVertexEdge(shapes[selectedShapeIndex + 1].vertexData, lastEvent'.x,
                       lastEvent'.y, PressRadius)
    ELSE -1

\* an add-vertex press near an edge pushes one snapshot, inserts the edge's
\* midpoint right after the edge's first vertex, and clears the selection
MidpointInserted ==
    (PressStep /\ PressEdge # -1) =>
        LET sel == selectedShapeIndex + 1
            vd == shapes[sel].vertexData
            new == shapes'[sel].vertexData
            i == PressEdge + 1
            j == (i % Len(vd)) + 1
        IN  /\ historyStack' = Append(historyStack, JsonCopyShapes(shapes))
            /\ Len(new) = Len(vd) + 1
            /\ 2 * new[i + 1].x = vd[i].x + vd[j].x
            /\ 2 * new[i + 1].y = vd[i].y + vd[j].y
            /\ SubSeq(new, 1, i) = SubSeq(vd, 1, i)
            /\ SubSeq(new, i + 2, Len(new)) = SubSeq(vd, i + 1, Len(vd))
            /\ shapes' = [shapes EXCEPT ![sel].vertexData = new]
            /\ selectedVertexIndices' = << >>

\* C8: in add-vertex mode with a layer selected, a press on the canvas
\* whose closest edge i lies within the 15 px threshold pushes one history
\* snapshot, inserts the midpoint of that edge at position i + 1 and
\* nothing else, and clears the vertex selection.
C8_AddVertex == [][PressAccepted => MidpointInserted]_vars

\* C8 as stated, for every press: a press beyond the canvas edge, near an
\* edge that a zoomed-in design has there, is ignored.
C8_AnyPress == [][MidpointInserted]_vars

\* an add-vertex press has just grown the selected layer by one vertex
C8_Witness ==
    /\ lastEvent.type = "mousePressed"
    /\ historyStack # << >>
    /\ HasShape(shapes, selectedShapeIndex)
    /\ Len(Top(historyStack)) = Len(shapes)
    /\ Len(shapes[selectedShapeIndex + 1].vertexData)
           = Len(Top(historyStack)[selectedShapeIndex + 1].vertexData) + 1

\* the last handler run was a zoom button's
AfterZoom == lastEvent.type \in {"zoomIn", "zoomOut"}

\* the limits and the initial size as doubles
minBaseDisplaySizeNumber == FloatOfInt(minBaseDisplaySize)
maxBaseDisplaySizeNumber == FloatOfInt(maxBaseDisplaySize)
initialBaseDisplaySizeNumber == FloatOfInt(initialBaseDisplaySize)

\* C9: the zoom is clamped.  baseDisplaySize stays within
\* [minBaseDisplaySize, maxBaseDisplaySize], and after every zoom call
\* pixelsPerUnit is baseDisplaySize / maxDefinedShipSize; so for the real
\* numbers and for the doubles that hold them.
C9_ZoomClamped ==
    /\ ~SizeLessThan(baseDisplaySize, minBaseDisplaySize)
    /\ ~SizeGreaterThan(baseDisplaySize, maxBaseDisplaySize)
    /\ ~FloatLess(baseDisplaySizeNumber, minBaseDisplaySizeNumber)
    /\ ~FloatLess(maxBaseDisplaySizeNumber, baseDisplaySizeNumber)
    /\ AfterZoom => /\ pixelsPerUnit.base = baseDisplaySize
                    /\ pixelsPerUnit.per = maxDefinedShipSize
                    /\ pixelsPerUnitNumber
                         = calculateScaleNumber(baseDisplaySizeNumber, maxDefinedShipSize)

\* a zoom-in that the clamp stopped at maxBaseDisplaySize
C9_Witness ==
    /\ lastEvent.type = "zoomIn"
    /\ baseDisplaySize = Size(maxBaseDisplaySize, 0)
    /\ baseDisplaySizeNumber = maxBaseDisplaySizeNumber

\* round trips checked from every reachable size: up to this many calls
MaxRoundTrip == 5

\* the sizes that n zoomIn calls from base pass through, base first
ZoomInPath(base, n) ==
    LET path[i \in 0 .. n] ==
            IF i = 0 THEN << base >>
            ELSE CHOOSE x \in { Append(p, Zoomed(p[Len(p)]).zoomedIn) :
                                  p \in {path[i - 1]} } : TRUE
    IN  path[n]

\* the sizes that n zoomOut calls from base pass through, base first
ZoomOutPath(base, n) ==
    LET path[i \in 0 .. n] ==
            IF i = 0 THEN << base >>
            ELSE CHOOSE x \in { Append(p, Zoomed(p[Len(p)]).zoomedOut) :
                                  p \in {path[i - 1]} } : TRUE
    IN  path[n]

\* the n zoomIn calls along ins and the n zoomOut calls along outs stayed
\* off the limits
NoClamp(ins, outs, n) ==
    \A i \in 2 .. n + 1 : /\ ins[i] # maxBaseDisplaySizeNumber
                          /\ outs[i] # minBaseDisplaySizeNumber

\* the double k units in the last place above a
FloatUp(a, k) ==
    LET up[i \in 0 .. k] ==
            IF i = 0 THEN a
            ELSE CHOOSE x \in { FloatCarry(p.m, TRUE, p.e) : p \in {up[i - 1]} } : TRUE
    IN  up[k]

\* a and b are at most k units in the last place apart
FloatWithin(a, b, k) ==
    \E i \in 0 .. k : FloatUp(a, i) = b \/ FloatUp(b, i) = a

\* every round trip of up to MaxRoundTrip calls each way from the size
\* base that stays off the limits brings pixelsPerUnit back to within ulps
\* units in the last place
RoundTripWithin(base, ulps) ==
    \A n \in 1 .. MaxRoundTrip :
        \A ins \in {ZoomInPath(base, n)} :
            \A outs \in {ZoomOutPath(ins[n + 1], n)} :
                NoClamp(ins, outs, n) =>
                    FloatWithin(ScaleOf(outs[n + 1], maxDefinedShipSize),
                                ScaleOf(base, maxDefinedShipSize), ulps)

\* a zoom call changes neither the Shape Set, nor the selection, nor the
\* history
ZoomFrame ==
    AfterZoom' => UNCHANGED << shapes, selectedShapeIndex, selectedVertexIndices,
                               historyStack >>

\* C10 as stated: from every size a zoom call leaves, n zoomIn calls
\* followed by n zoomOut calls, none of them hitting a limit, return
\* pixelsPerUnit to its value exactly.
C10_ExactRoundTrip ==
    AfterZoom => RoundTripWithin(baseDisplaySizeNumber, 0)

\* C10: zoom round trip.  From every size a zoom call leaves, n zoomIn
\* calls followed by n zoomOut calls, none of them hitting a limit, return
\* pixelsPerUnit to its value up to the rounding of the doubles (at most
\* two units in the last place), and exactly from the initial size; and a
\* zoom call changes neither the Shape Set, nor the selection, nor the
\* history.
C10_ZoomRoundTrip ==
    /\ [](AfterZoom => /\ pixelsPerUnitNumber
                            = ScaleOf(baseDisplaySizeNumber, maxDefinedShipSize)
                       /\ RoundTripWithin(baseDisplaySizeNumber, 2)
                       /\ RoundTripWithin(initialBaseDisplaySizeNumber, 0))
    /\ [][ZoomFrame]_vars

\* back at the initial size by a zoomOut, on a design with a layer, a
\* selection and a history, with five calls each way clear of the limits
C10_Witness ==
    /\ lastEvent.type = "zoomOut"
    /\ baseDisplaySizeNumber = initialBaseDisplaySizeNumber
    /\ NoClamp(ZoomInPath(baseDisplaySizeNumber, MaxRoundTrip),
               ZoomOutPath(ZoomInPath(baseDisplaySizeNumber, MaxRoundTrip)[MaxRoundTrip + 1],
                           MaxRoundTrip),
               MaxRoundTrip)
    /\ shapes # << >>
    /\ selectedShapeIndex = 0
    /\ historyStack # << >>

-----------------------------------------------------------------------------
\* Straighten idempotence

AfterStraighten ==
    /\ lastEvent.type = "handleStraightenClick"
    /\ selectedShapeIndex # -1
    /\ isEditable(currentShipKey, currentShipDef)
    /\ HasShape(shapes, selectedShapeIndex)

\* C11: straighten idempotence.  Right after a straighten click has
\* adjusted the selected layer, a second call of straightenMirroredVertices
\* with the same threshold changes no vertex coordinate of that layer.
C11_StraightenIdempotent ==
    AfterStraighten =>
        LET vd == shapes[selectedShapeIndex + 1].vertexData
        IN  straightenedHalves(vd) = Doubled(vd)

-----------------------------------------------------------------------------
\* Snapshot before mutation

\* the handlers that edit the Shape Set in one step
EditEvents ==
    { "mousePressed", "keyPressed", "addNewShape", "handleStraightenClick",
      "updateSelectedShapeFill", "updateSelectedShapeStroke",
      "updateSelectedShapeStrokeWeight" }

\* the step pushed one entry, a deep copy of the Shape Set before the step
SnapshotPushed ==
    /\ historyStack' # << >>
    /\ DeepEqual(Top(historyStack'), shapes)
    /\ Pop(historyStack') = IF Len(historyStack) < maxHistorySize THEN historyStack
                            ELSE Tail(historyStack)

\* the step is a press the canvas takes that starts a vertex drag or a layer
\* drag
DragStarts ==
    /\ PressStep
    /\ PressAccepted
    /\ draggingVertex' \/ draggingShape'

\* C12: snapshot before mutation.  A step that changes the Shape Set is a
\* load, an undo, a drag event or one of the editing handlers (vertex
\* insert, vertex delete, layer delete, add layer, straighten, fill, stroke
\* and stroke-weight change); an editing handler that changes the Shape Set
\* pushes a snapshot equal to the Shape Set before its change; a press that
\* starts a drag pushes that snapshot, and drag and release events push
\* nothing.
C12_SnapshotBeforeMutation ==
    [][ /\ (~UndoStep /\ ~LoadStep /\ ~DeepEqual(shapes', shapes)) =>
               \/ lastEvent'.type = "mouseDragged" /\ (draggingVertex \/ draggingShape)
               \/ lastEvent'.type \in EditEvents /\ SnapshotPushed
        /\ DragStarts => SnapshotPushed
        /\ lastEvent'.type \in {"mouseDragged", "mouseReleased"} =>
               historyStack' = historyStack ]_vars

\* a drag event has moved a vertex of the selected layer away from where the
\* snapshot of the press holds it
C12_Witness ==
    /\ lastEvent.type = "mouseDragged"
    /\ draggingVertex
    /\ historyStack # << >>
    /\ ~DeepEqual(shapes, Top(historyStack))

-----------------------------------------------------------------------------
\* Undo

\* C13: an undo that finds a valid entry on the history removes exactly
\* that entry and leaves no layer selected, no vertex selected, add-vertex
\* mode off and both drag flags false, whatever they were before, also when
\* it arrives in the middle of a drag.
C13_UndoNeutral ==
    [][ (UndoStep /\ historyStack # << >> /\ ValidShapes(Top(historyStack))) =>
            /\ historyStack' = Pop(historyStack)
            /\ selectedShapeIndex' = -1
            /\ selectedVertexIndices' = << >>
            /\ ~addingVertexMode'
            /\ ~draggingVertex'
            /\ ~draggingShape' ]_vars

\* an undo has arrived in the middle of a vertex drag: the positions the
\* press recorded are still there, the drag flag and the selection are not
C13_Witness ==
    /\ \/ lastEvent.type = "undoLastChange"
       \/ lastEvent.type = "keyPressed" /\ lastEvent.text = << "ctrl", "z" >>
    /\ dragVertexInitialPositions # << >>
    /\ ~draggingVertex
    /\ selectedShapeIndex = -1
    /\ shapes # << >>

-----------------------------------------------------------------------------
\* Structural validation

\* the Shape Set and every History Entry pass the structural validation of
\* saveStateForUndo and undoLastChange: the branches of lines 127-141 and
\* 197-202 that reject a Shape Set are never taken
ShapeSetsValid ==
    /\ ValidShapes(shapes)
    /\ \A i \in 1 .. Len(historyStack) : ValidShapes(JsonCopyShapes(historyStack[i]))

-----------------------------------------------------------------------------
\* Selection

\* C16: selection validity.  selectedShapeIndex is -1 or an index of
\* shapes; selectedVertexIndices holds no index twice, holds only indices
\* of vertices of the selected layer, and is empty when no layer is
\* selected.
C16_SelectionValid ==
    /\ selectedShapeIndex = -1 \/ selectedShapeIndex \in 0 .. Len(shapes) - 1
    /\ \A i, j \in 1 .. Len(selectedVertexIndices) :
           i # j => selectedVertexIndices[i] # selectedVertexIndices[j]
    /\ selectedShapeIndex = -1 => selectedVertexIndices = << >>
    /\ selectedShapeIndex # -1 =>
           \A i \in 1 .. Len(selectedVertexIndices) :
               selectedVertexIndices[i] \in
                   0 .. Len(shapes[selectedShapeIndex + 1].vertexData) - 1

\* two vertices of the selected layer are selected
C16_Witness ==
    /\ selectedShapeIndex # -1
    /\ Len(selectedVertexIndices) = 2

-----------------------------------------------------------------------------
\* Stroke weight

\* C17: the stroke weight of every layer is at least 0, also after a value
\* entered in the stroke-weight input.
C17_StrokeWeightNonNegative ==
    \A i \in 1 .. Len(shapes) : shapes[i].strokeW >= 0

-----------------------------------------------------------------------------
\* Drag termination

\* the step turned a true drag flag false
DragEnded ==
    \/ draggingVertex /\ ~draggingVertex'
    \/ draggingShape /\ ~draggingShape'

\* the step was a Delete or Backspace key press that removed vertices or a
\* layer
DeleteKeyStep ==
    /\ lastEvent'.type = "keyPressed"
    /\ lastEvent'.arg \in {"DELETE", "BACKSPACE"}
    /\ ~DeepEqual(shapes', shapes)

\* the step was a click on the add-vertex button that turned the mode on
EnterAddVertexStep ==
    /\ lastEvent'.type = "toggleAddVertexMode"
    /\ ~addingVertexMode
    /\ addingVertexMode'

\* C18 as stated: only a release or an undo turns a true drag flag false.
C18_ReleaseOrUndoOnly ==
    [][ DragEnded => (lastEvent'.type = "mouseReleased" \/ UndoStep) ]_vars

\* C18: drag termination.  A true drag flag is turned false only by a
\* release, an undo that restores an entry, a ship selection, a Delete or
\* Backspace key press that removes the selected vertices or the selected
\* layer, a click that turns add-vertex mode on, or another press on the
\* canvas; no other event (any other key press, add layer, turning
\* add-vertex mode off, straighten, a style change, a drag event) does.
C18_DragTermination ==
    [][ DragEnded =>
            \/ lastEvent'.type = "mouseReleased"
            \/ UndoStep /\ historyStack # << >>
            \/ LoadStep
            \/ DeleteKeyStep
            \/ EnterAddVertexStep
            \/ PressStep /\ PressAccepted ]_vars

\* a Delete key press has ended a vertex drag: the positions the press
\* recorded are still there, the button is still down, the flag is false
C18_Witness ==
    /\ lastEvent.type = "keyPressed"
    /\ lastEvent.arg = "DELETE"
    /\ dragVertexInitialPositions # << >>
    /\ ~draggingVertex
    /\ mouseIsPressed

-----------------------------------------------------------------------------
\* Presses in add-vertex mode

\* edge e (0-based) of vd lies within edgeClickMinDist pixels of (mx, my)
EdgeWithinThreshold(vd, e, mx, my, r) ==
    LET v1 == vd[e + 1]
        v2 == vd[((e + 1) % Len(vd)) + 1]
        dd == distSqToSegment(mx, my, v1.x, v1.y, v2.x, v2.y)
    IN  PixelsLess(dd.n, dd.d, r, edgeClickMinDist)

\* no edge of the selected layer lies within the threshold of the point of
\* the event e
NoEdgeNear(shp, sel, e, r) ==
    HasShape(shp, sel) =>
        \A k \in 0 .. Len(shp[sel + 1].vertexData) - 1 :
            ~EdgeWithinThreshold(shp[sel + 1].vertexData, k, e.x, e.y, r)

\* C19: while add-vertex mode is on, a press on the canvas leaves
\* selectedShapeIndex as it is, adds no index to the vertex selection and
\* starts neither a vertex drag nor a layer drag; when no edge of the
\* selected layer is within edgeClickMinDist pixels of the point, it leaves
\* the Shape Set and the history as they are.
C19_AddVertexPressConsumed ==
    [][ (PressStep /\ PressAccepted /\ addingVertexMode) =>
            /\ selectedShapeIndex' = selectedShapeIndex
            /\ \A i \in 1 .. Len(selectedVertexIndices') :
                   includes(selectedVertexIndices, selectedVertexIndices'[i])
            /\ ~draggingVertex'
            /\ ~draggingShape'
            /\ NoEdgeNear(shapes, selectedShapeIndex, lastEvent', PressRadius) =>
                   /\ shapes' = shapes
                   /\ historyStack' = historyStack ]_vars

\* a press in add-vertex mode, far from every edge of the selected layer
\* and inside a layer that is not selected, has left everything in place
C19_Witness ==
    /\ lastEvent.type = "mousePressed"
    /\ addingVertexMode
    /\ Len(shapes) = 2
    /\ HasShape(shapes, selectedShapeIndex)
    /\ OnCanvas(lastEvent.x, lastEvent.y,
                interactionR(currentShipKey, currentShipDef, shapes, baseDisplaySize,
                             pixelsPerUnit, maxDefinedShipSize))
    /\ NoEdgeNear(shapes, selectedShapeIndex, lastEvent,
                  interactionR(currentShipKey, currentShipDef, shapes, baseDisplaySize,
                               pixelsPerUnit, maxDefinedShipSize))
    /\ isPointInPolygon(lastEvent.x, lastEvent.y,
                        shapes[2 - selectedShapeIndex].vertexData)

-----------------------------------------------------------------------------
\* Shift presses on vertex handles

Range(seq) == { seq[i] : i \in 1 .. Len(seq) }

\* the point pressed is within grabRadius pixels of vertex h (0-based) of
\* the selected layer
HandleNear(h) ==
    /\ HasShape(shapes, selectedShapeIndex)
    /\ h < Len(shapes[selectedShapeIndex + 1].vertexData)
    /\ LET v == shapes[selectedShapeIndex + 1].vertexData[h + 1]
       IN  PixelsLess(distSq(lastEvent'.x, lastEvent'.y, v.x, v.y), 1, PressRadius,
                      grabRadius)

\* the step toggled index h in the vertex selection and did nothing else
Toggled(h) ==
    /\ Range(selectedVertexIndices') =
           IF h \in Range(selectedVertexIndices)
           THEN Range(selectedVertexIndices) \ {h}
           ELSE Range(selectedVertexIndices) \cup {h}
    /\ Len(selectedVertexIndices') =
           IF h \in Range(selectedVertexIndices)
           THEN Len(selectedVertexIndices) - 1
           ELSE Len(selectedVertexIndices) + 1
    /\ selectedShapeIndex' = selectedShapeIndex
    /\ ~draggingVertex'
    /\ ~draggingShape'
    /\ historyStack' = historyStack
    /\ shapes' = shapes

\* the vertex indices of the selected layer
HandleIndices ==
    IF HasShape(shapes, selectedShapeIndex)
    THEN 0 .. Len(shapes[selectedShapeIndex + 1].vertexData) - 1
    ELSE {}

\* the handle the press hits: the first vertex of the selected layer, in
\* index order, within grabRadius pixels of the point pressed
HandleHit(h) ==
    /\ HandleNear(h)
    /\ \A g \in 0 .. h - 1 : ~HandleNear(g)

\* C20 as stated, for every press with shift held on a vertex handle of the
\* selected layer: in add-vertex mode the press is taken by the edge
\* insertion, and beyond the canvas edge it is ignored.
C20_AnyShiftPress ==
    [][ \A h \in HandleIndices :
            (PressStep /\ lastEvent'.shift /\ HandleHit(h)) => Toggled(h) ]_vars

\* C20: a press with shift held, on the canvas and outside add-vertex mode,
\* on a vertex handle of the selected layer toggles exactly that index in
\* the vertex selection, added if absent and removed if present, so that
\* two such presses restore the selection set; it starts no drag, pushes
\* no snapshot and leaves the Shape Set unchanged.
C20_ShiftPressToggles ==
    [][ \A h \in HandleIndices :
            ( /\ PressStep /\ lastEvent'.shift
              /\ PressAccepted
              /\ ~addingVertexMode
              /\ HandleHit(h) ) => Toggled(h) ]_vars

\* a second press with shift held on the same handle has just emptied the
\* selection again: nothing is selected, nothing is dragged, and the press
\* lies on a handle of the selected layer
C20_Witness ==
    /\ lastEvent.type = "mousePressed"
    /\ lastEvent.shift
    /\ ~addingVertexMode
    /\ HasShape(shapes, selectedShapeIndex)
    /\ selectedVertexIndices = << >>
    /\ ~draggingVertex /\ ~draggingShape
    /\ \E h \in 0 .. Len(shapes[selectedShapeIndex + 1].vertexData) - 1 :
           LET v == shapes[selectedShapeIndex + 1].vertexData[h + 1]
               r == interactionR(currentShipKey, currentShipDef, shapes,
                                 baseDisplaySize, pixelsPerUnit, maxDefinedShipSize)
           IN  /\ OnCanvas(lastEvent.x, lastEvent.y, r)
               /\ PixelsLess(distSq(lastEvent.x, lastEvent.y, v.x, v.y), 1, r, grabRadius)

-----------------------------------------------------------------------------
\* Presses on vertex handles without shift

\* dragVertexInitialPositions for the selection sel on the vertices vd: one
\* entry per selected index, in selection order, with the vertex's position
PositionsOf(vd, sel) ==
    [k \in 1 .. Len(sel) |->
        [index |-> sel[k], x |-> vd[sel[k] + 1].x, y |-> vd[sel[k] + 1].y]]

\* the step pushed one snapshot and started a vertex drag on handle h
VertexDragStarted(h) ==
    LET vd == shapes[selectedShapeIndex + 1].vertexData
    IN  /\ SnapshotPushed
        /\ draggingVertex'
        /\ ~draggingShape'
        /\ selectedVertexIndices' =
               IF h \in Range(selectedVertexIndices) THEN selectedVertexIndices
               ELSE << h >>
        /\ Len(dragVertexInitialPositions') = Len(selectedVertexIndices')
        /\ dragVertexInitialPositions' = PositionsOf(vd, selectedVertexIndices')
        /\ selectedShapeIndex' = selectedShapeIndex
        /\ shapes' = shapes

\* C21 as stated, for every press without shift on a vertex handle of the
\* selected layer: in add-vertex mode the press is taken by the edge
\* insertion, and beyond the canvas edge it is ignored.
C21_AnyPlainPress ==
    [][ \A h \in HandleIndices :
            (PressStep /\ ~lastEvent'.shift /\ HandleHit(h)) =>
                VertexDragStarted(h) ]_vars

\* C21: a press without shift, on the canvas and outside add-vertex mode,
\* on a vertex handle of the selected layer (the lowest-index vertex within
\* the grab radius is the one hit) pushes exactly one snapshot and starts a
\* vertex drag; the selection becomes exactly the hit vertex if it was not
\* selected and is kept whole otherwise; the recorded initial positions are
\* the current positions of all selected vertices.
C21_HandlePressStartsDrag ==
    [][ \A h \in HandleIndices :
            ( /\ PressStep /\ ~lastEvent'.shift
              /\ PressAccepted
              /\ ~addingVertexMode
              /\ HandleHit(h) ) => VertexDragStarted(h) ]_vars

\* a press without shift on one of two selected vertices has started a drag
\* of both
C21_Witness ==
    /\ lastEvent.type = "mousePressed"
    /\ ~lastEvent.shift
    /\ draggingVertex
    /\ Len(selectedVertexIndices) = 2
    /\ Len(dragVertexInitialPositions) = 2
    /\ historyStack # << >>

-----------------------------------------------------------------------------
\* Presses on layers

\* the press is within grabRadius of no vertex of the selected layer
NoHandleHit == \A h \in HandleIndices : ~HandleNear(h)

\* layer i (0-based) is the topmost layer at the point pressed: it contains
\* the point and no layer before it does
LayerHit(i) ==
    /\ HasShape(shapes, i)
    /\ PressInside(i)
    /\ \A g \in 0 .. i - 1 : ~PressInside(g)

\* the step pushed one snapshot and started a drag of the selected layer
LayerDragStarted ==
    /\ SnapshotPushed
    /\ selectedVertexIndices' = << >>
    /\ selectedShapeIndex' = selectedShapeIndex
    /\ draggingShape'
    /\ ~draggingVertex'
    /\ shapes' = shapes

\* C22 as stated, for every press that hits no handle and lands inside the
\* selected layer: in add-vertex mode the press is taken by the edge
\* insertion, and beyond the canvas edge it is ignored.
C22_AnyPress ==
    [][ (PressStep /\ NoHandleHit /\ LayerHit(selectedShapeIndex)) =>
            LayerDragStarted ]_vars

\* C22: a press on the canvas, outside add-vertex mode, that hits no handle
\* and lands inside the selected layer, the topmost layer at that point,
\* pushes exactly one snapshot, clears the vertex selection, keeps the
\* layer selection and starts a layer drag (draggingShape true,
\* draggingVertex false).
C22_LayerPressStartsDrag ==
    [][ ( /\ PressStep
          /\ PressAccepted
          /\ ~addingVertexMode
          /\ NoHandleHit
          /\ LayerHit(selectedShapeIndex) ) => LayerDragStarted ]_vars

\* a press inside the selected layer, which lies over another layer that
\* contains the point too, has started a layer drag
C22_Witness ==
    /\ lastEvent.type = "mousePressed"
    /\ draggingShape
    /\ ~draggingVertex
    /\ selectedShapeIndex = 0
    /\ Len(shapes) = 2
    /\ isPointInPolygon(lastEvent.x, lastEvent.y, shapes[2].vertexData)
    /\ historyStack # << >>
    /\ DeepEqual(Top(historyStack), shapes)

-----------------------------------------------------------------------------
\* Pure selection changes

\* C23: a press that selects a different layer, or that clears the layer
\* selection, leaves the Shape Set and the history as they are, clears the
\* vertex selection and starts no drag.
C23_SelectionChangeOnly ==
    [][ (PressStep /\ selectedShapeIndex' # selectedShapeIndex) =>
            /\ shapes' = shapes
            /\ historyStack' = historyStack
            /\ selectedVertexIndices' = << >>
            /\ ~draggingVertex'
            /\ ~draggingShape' ]_vars

\* a press without shift inside layer 1 and outside layer 0 has left layer
\* 1 selected and started no drag: layer 1 was not selected before it
C23_Witness ==
    /\ lastEvent.type = "mousePressed"
    /\ ~lastEvent.shift
    /\ ~addingVertexMode
    /\ Len(shapes) = 2
    /\ selectedShapeIndex = 1
    /\ ~draggingShape /\ ~draggingVertex
    /\ isPointInPolygon(lastEvent.x, lastEvent.y, shapes[2].vertexData)
    /\ ~isPointInPolygon(lastEvent.x, lastEvent.y, shapes[1].vertexData)

-----------------------------------------------------------------------------
\* Drags

DragStep == lastEvent'.type = "mouseDragged"

\* the indices recorded in the initial-position buffer
DraggedIndices == { dragVertexInitialPositions[k].index :
                        k \in 1 .. Len(dragVertexInitialPositions) }

\* every layer but the selected one, and the number and order of layers,
\* are as before the step
OtherLayersKept ==
    /\ Len(shapes') = Len(shapes)
    /\ \A j \in 1 .. Len(shapes) : j # selectedShapeIndex + 1 => shapes'[j] = shapes[j]

\* the dragged vertices of the selected layer, which are the selected ones,
\* are the recorded positions moved by (dx, dy), and its other vertices are
\* as before the step
VerticesMovedFromRecord(dx, dy) ==
    LET vd == shapes[selectedShapeIndex + 1].vertexData
        vdAfter == shapes'[selectedShapeIndex + 1].vertexData
        inits == dragVertexInitialPositions
    IN  /\ Len(vdAfter) = Len(vd)
        /\ \A k \in 1 .. Len(inits) :
               /\ inits[k].index + 1 \in 1 .. Len(vd)
               /\ vdAfter[inits[k].index + 1] = V(inits[k].x + dx, inits[k].y + dy)
        /\ DraggedIndices = Range(selectedVertexIndices)
        /\ \A i \in 1 .. Len(vd) :
               (i - 1) \notin Range(selectedVertexIndices) => vdAfter[i] = vd[i]

\* C24: a drag event of a vertex drag that leaves no axis lock puts every
\* dragged vertex at its recorded position plus the pointer's displacement
\* since the press (so at the recorded position when the pointer is back at
\* the press position), and keeps the other vertices, the vertex count and
\* the other layers.
C24_VertexDragFromPress ==
    [][ (DragStep /\ draggingVertex /\ dragConstrainedAxis' = NULL) =>
            /\ HasShape(shapes, selectedShapeIndex)
            /\ dragVertexInitialPositions # << >>
            /\ VerticesMovedFromRecord(lastEvent'.x - dragVertexStartX,
                                       lastEvent'.y - dragVertexStartY)
            /\ OtherLayersKept ]_vars

\* the pointer has moved away and is back at the press position: the
\* dragged vertex is back at its recorded position
C24_Witness ==
    /\ lastEvent.type = "mouseDragged"
    /\ draggingVertex
    /\ dragOccurred
    /\ dragConstrainedAxis = NULL
    /\ lastEvent.x = dragVertexStartX
    /\ lastEvent.y = dragVertexStartY
    /\ Len(dragVertexInitialPositions) = 1
    /\ LET p == dragVertexInitialPositions[1]
       IN  shapes[selectedShapeIndex + 1].vertexData[p.index + 1] = V(p.x, p.y)

\* every vertex of the selected layer is moved by (dx, dy)
LayerTranslated(dx, dy) ==
    LET vd == shapes[selectedShapeIndex + 1].vertexData
        vdAfter == shapes'[selectedShapeIndex + 1].vertexData
    IN  /\ Len(vdAfter) = Len(vd)
        /\ \A i \in 1 .. Len(vd) : vdAfter[i] = V(vd[i].x + dx, vd[i].y + dy)

\* C25 as stated: each drag event of a layer drag moves every vertex of the
\* selected layer by the pointer's displacement since the previous pointer
\* position, and keeps the other layers, the layer order, the vertex counts
\* and the history.
C25_LayerDragByPointerDelta ==
    [][ (DragStep /\ draggingShape) =>
            /\ HasShape(shapes, selectedShapeIndex)
            /\ LayerTranslated(lastEvent'.x - pmouseX, lastEvent'.y - pmouseY)
            /\ OtherLayersKept
            /\ historyStack' = historyStack ]_vars

\* C25: each drag event of a layer drag moves every vertex of the selected
\* layer by one and the same delta, the pointer's displacement since the
\* previous pointer position with the component across a locked axis set to
\* zero, and keeps the other layers, the layer order, the vertex counts and
\* the history.
C25_LayerDragRigid ==
    [][ (DragStep /\ draggingShape) =>
            /\ HasShape(shapes, selectedShapeIndex)
            /\ LayerTranslated(
                   IF dragConstrainedAxis' = "y" THEN 0 ELSE lastEvent'.x - pmouseX,
                   IF dragConstrainedAxis' = "x" THEN 0 ELSE lastEvent'.y - pmouseY)
            /\ OtherLayersKept
            /\ historyStack' = historyStack ]_vars

\* a layer drag has moved the selected layer away from where the snapshot
\* taken at the press has it, next to another layer
C25_Witness ==
    /\ lastEvent.type = "mouseDragged"
    /\ draggingShape
    /\ dragOccurred
    /\ Len(shapes) = 2
    /\ historyStack # << >>
    /\ Len(Top(historyStack)) = 2
    /\ shapes[selectedShapeIndex + 1].vertexData
           # Top(historyStack)[selectedShapeIndex + 1].vertexData

-----------------------------------------------------------------------------
\* Axis lock

ReleaseStep == lastEvent'.type = "mouseReleased"

AxisLocked == dragConstrainedAxis \in {"x", "y"}

\* a drag event with shift held keeps an axis lock that is set
LockKeptUnderShift ==
    (DragStep /\ lastEvent'.shift /\ AxisLocked) =>
        dragConstrainedAxis' = dragConstrainedAxis

\* C26 as stated: a drag event with shift held keeps a lock that is set, and
\* a lock is cleared only by a drag event without shift, by a release or by
\* a press.
C26_LockClearedByPointerOnly ==
    [][ /\ LockKeptUnderShift
        /\ (AxisLocked /\ dragConstrainedAxis' # dragConstrainedAxis) =>
               \/ DragStep /\ ~lastEvent'.shift
               \/ ReleaseStep
               \/ PressStep ]_vars

\* C26: a drag event with shift held keeps a lock that is set, and a lock
\* is cleared only by a drag event without shift, by a release, by a press
\* or by the loading of a design.
C26_AxisLockPersists ==
    [][ /\ LockKeptUnderShift
        /\ (AxisLocked /\ dragConstrainedAxis' # dragConstrainedAxis) =>
               /\ dragConstrainedAxis' = NULL
               /\ \/ DragStep /\ ~lastEvent'.shift
                  \/ ReleaseStep
                  \/ PressStep
                  \/ LoadStep ]_vars

\* a vertex drag with shift held is locked to x although the pointer is now
\* further from the press position along y than along x
C26_Witness ==
    /\ lastEvent.type = "mouseDragged"
    /\ lastEvent.shift
    /\ draggingVertex
    /\ dragConstrainedAxis = "x"
    /\ Abs(lastEvent.y - dragVertexStartY) > Abs(lastEvent.x - dragVertexStartX)

\* C27: a drag event that leaves the axis lock at 'x' puts every dragged
\* vertex of a vertex drag at its recorded y, and leaves the y of every
\* vertex of a dragged layer as it was; with the lock at 'y' the same holds
\* of x.
C27_LockedAxisDeltaZero ==
    [][ (DragStep /\ AxisLocked' /\ (draggingVertex \/ draggingShape)) =>
            LET vd == shapes[selectedShapeIndex + 1].vertexData
                vdAfter == shapes'[selectedShapeIndex + 1].vertexData
                inits == dragVertexInitialPositions
                Kept(before, after) == IF dragConstrainedAxis' = "x"
                                       THEN after.y = before.y
                                       ELSE after.x = before.x
            IN  /\ HasShape(shapes, selectedShapeIndex)
                /\ Len(vdAfter) = Len(vd)
                /\ draggingVertex =>
                       \A k \in 1 .. Len(inits) :
                           inits[k].index + 1 \in 1 .. Len(vd) =>
                               Kept(inits[k], vdAfter[inits[k].index + 1])
                /\ ~draggingVertex =>
                       \A i \in 1 .. Len(vd) : Kept(vd[i], vdAfter[i]) ]_vars

\* a layer drag locked to x has moved the layer along x and not along y,
\* with the pointer away from the press position along y
C27_Witness ==
    /\ lastEvent.type = "mouseDragged"
    /\ draggingShape
    /\ dragConstrainedAxis = "x"
    /\ lastEvent.y # dragShapeStartY
    /\ historyStack # << >>
    /\ Len(Top(historyStack)) = Len(shapes)
    /\ LET vd == shapes[selectedShapeIndex + 1].vertexData
           was == Top(historyStack)[selectedShapeIndex + 1].vertexData
       IN  /\ Len(was) = Len(vd)
           /\ \A i \in 1 .. Len(vd) : vd[i].y = was[i].y /\ vd[i].x # was[i].x

-----------------------------------------------------------------------------
\* Release

\* C28: a release leaves both drag flags false, the initial-position buffer
\* empty and the axis lock null, and keeps the Shape Set, the selection and
\* the history.
C28_ReleaseClearsDrag ==
    [][ ReleaseStep =>
            /\ ~draggingVertex'
            /\ ~draggingShape'
            /\ dragVertexInitialPositions' = << >>
            /\ dragConstrainedAxis' = NULL
            /\ shapes' = shapes
            /\ selectedShapeIndex' = selectedShapeIndex
            /\ selectedVertexIndices' = selectedVertexIndices
            /\ historyStack' = historyStack ]_vars

\* released after a vertex drag: the vertex is still selected and away from
\* where the snapshot taken at the press has it
C28_Witness ==
    /\ lastEvent.type = "mouseReleased"
    /\ ~draggingVertex /\ ~draggingShape
    /\ dragVertexInitialPositions = << >>
    /\ Len(selectedVertexIndices) = 1
    /\ historyStack # << >>
    /\ Len(Top(historyStack)) = Len(shapes)
    /\ LET i == selectedVertexIndices[1] + 1
           vd == shapes[selectedShapeIndex + 1].vertexData
           was == Top(historyStack)[selectedShapeIndex + 1].vertexData
       IN  Len(was) = Len(vd) /\ vd[i] # was[i]

-----------------------------------------------------------------------------
\* Deletions

\* after is before without the elements at the 0-based indices in drop, the
\* others in their order
RemovedAt(before, after, drop) ==
    LET keep == { i \in 1 .. Len(before) : (i - 1) \notin drop }
        position(i) == Cardinality({ j \in keep : j <= i })
    IN  /\ Len(after) = Cardinality(keep)
        /\ \A i \in keep : after[position(i)] = before[i]

\* C29: a Delete or Backspace key press without shift, with vertices selected
\* that leave the layer at least 3 when removed, pushes one snapshot,
\* removes the vertices at the selected indices and keeps the others in
\* their order, keeps the other layers and clears the vertex selection.
C29_DeleteVerticesAccepted ==
    [][ ( /\ DeleteVertexKeyStep
          /\ selectedVertexIndices # << >>
          /\ HasShape(shapes, selectedShapeIndex)
          /\ Len(shapes[selectedShapeIndex + 1].vertexData)
                 - Len(selectedVertexIndices) >= 3 ) =>
            /\ SnapshotPushed
            /\ RemovedAt(shapes[selectedShapeIndex + 1].vertexData,
                         shapes'[selectedShapeIndex + 1].vertexData,
                         Range(selectedVertexIndices))
            /\ OtherLayersKept
            /\ selectedShapeIndex' = selectedShapeIndex
            /\ selectedVertexIndices' = << >> ]_vars

\* a delete key has taken one vertex, not the last one, out of the selected
\* layer
C29_Witness ==
    /\ lastEvent.type = "keyPressed"
    /\ lastEvent.arg \in {"DELETE", "BACKSPACE"}
    /\ ~lastEvent.shift
    /\ selectedVertexIndices = << >>
    /\ selectedShapeIndex # -1
    /\ historyStack # << >>
    /\ Len(Top(historyStack)) = Len(shapes)
    /\ LET vd == shapes[selectedShapeIndex + 1].vertexData
           was == Top(historyStack)[selectedShapeIndex + 1].vertexData
       IN  /\ Len(was) = Len(vd) + 1
           /\ vd[Len(vd)] = was[Len(was)]
           /\ vd[1] = was[1]

\* C30: Shift + Delete or Backspace with a layer selected pushes one
\* snapshot, removes the selected layer and keeps the others in their
\* order, and clears the layer selection, the vertex selection and both
\* drag flags.
C30_DeleteLayer ==
    [][ ( /\ lastEvent'.type = "keyPressed"
          /\ lastEvent'.arg \in {"DELETE", "BACKSPACE"}
          /\ lastEvent'.shift
          /\ selectedShapeIndex # -1 ) =>
            /\ SnapshotPushed
            /\ Len(shapes') = Len(shapes) - 1
            /\ RemovedAt(shapes, shapes', {selectedShapeIndex})
            /\ selectedShapeIndex' = -1
            /\ selectedVertexIndices' = << >>
            /\ ~draggingVertex'
            /\ ~draggingShape' ]_vars

\* Shift + Backspace has removed the upper of two layers during a drag of
\* one of its vertices: the lower one is left and nothing is selected
C30_Witness ==
    /\ lastEvent.type = "keyPressed"
    /\ lastEvent.shift
    /\ lastEvent.arg \in {"DELETE", "BACKSPACE"}
    /\ selectedShapeIndex = -1
    /\ Len(shapes) = 1
    /\ historyStack # << >>
    /\ Len(Top(historyStack)) = 2
    /\ shapes[1] = Top(historyStack)[2]
    /\ dragVertexInitialPositions # << >>

-----------------------------------------------------------------------------
\* Layers and modes

AddShapeStep == lastEvent'.type = "addNewShape"

NoDesignChosen == currentShipKey = NULL \/ currentShipKey = SelectPrompt

\* C31: addNewShape on an editable design pushes one snapshot and puts a new
\* layer of 3 vertices at index 0, selected, with every previous layer one
\* index up and no vertex selected; with no design chosen or the Thargoid
\* selected it changes nothing.
C31_AddShapePrepends ==
    [][ AddShapeStep =>
            /\ isEditable(currentShipKey, currentShipDef) =>
                   /\ SnapshotPushed
                   /\ Len(shapes') = Len(shapes) + 1
                   /\ Len(shapes'[1].vertexData) = 3
                   /\ \A j \in 1 .. Len(shapes) : shapes'[j + 1] = shapes[j]
                   /\ selectedShapeIndex' = 0
                   /\ selectedVertexIndices' = << >>
            /\ (NoDesignChosen \/ isThargoidSelected(currentShipKey, currentShipDef)) =>
                   UNCHANGED << catalogVars, designVars, shapes, historyStack, zoomVars,
                                selectionVars, flagVars, dragVars >> ]_vars

\* a layer has been added on top of the layer of a loaded design
C31_Witness ==
    /\ lastEvent.type = "addNewShape"
    /\ currentShipKey # NewBlank
    /\ Len(shapes) = 2
    /\ selectedShapeIndex = 0
    /\ shapes[1] = DefaultShape
    /\ historyStack # << >>
    /\ DeepEqual(Top(historyStack), Tail(shapes))

ToggleStep == lastEvent'.type = "toggleAddVertexMode"

\* a layer of an editable design is selected
EditableLayerSelected ==
    /\ selectedShapeIndex # -1
    /\ isEditable(currentShipKey, currentShipDef)
    /\ HasShape(shapes, selectedShapeIndex)

\* C32: toggleAddVertexMode flips the mode when a layer of an editable
\* design is selected and leaves it off otherwise; when it has turned the
\* mode off, no vertex is selected and neither drag flag is set.
C32_ToggleAddVertexMode ==
    [][ ToggleStep =>
            /\ addingVertexMode' = (EditableLayerSelected /\ ~addingVertexMode)
            /\ (addingVertexMode /\ ~addingVertexMode') =>
                   /\ selectedVertexIndices' = << >>
                   /\ ~draggingVertex'
                   /\ ~draggingShape' ]_vars

\* the toggle has turned the mode off: with a layer of an editable design
\* selected it flips the mode, so the mode was on
C32_Witness ==
    /\ lastEvent.type = "toggleAddVertexMode"
    /\ ~addingVertexMode
    /\ EditableLayerSelected
    /\ selectedVertexIndices = << >>
    /\ ~draggingVertex /\ ~draggingShape

-----------------------------------------------------------------------------
\* Keys

KeyStep == lastEvent'.type = "keyPressed"

UndoShortcut == lastEvent'.text = << "ctrl", "z" >>

\* C33 as stated: a key press with no layer selected keeps the Shape Set and
\* the history.
C33_AnyKeyNeedsLayer ==
    [][ (KeyStep /\ selectedShapeIndex = -1) =>
            shapes' = shapes /\ historyStack' = historyStack ]_vars

\* C33: a key press other than the undo shortcut, with no layer selected,
\* keeps the Shape Set and the history.
C33_DeleteKeysNeedLayer ==
    [][ (KeyStep /\ selectedShapeIndex = -1 /\ ~UndoShortcut) =>
            shapes' = shapes /\ historyStack' = historyStack ]_vars

\* Shift + Backspace with layers present and none selected: an undo has
\* taken the selection away, its snapshot has as many layers as the design,
\* so the key has removed none
C33_Witness ==
    /\ lastEvent.type = "keyPressed"
    /\ lastEvent.arg \in {"DELETE", "BACKSPACE"}
    /\ lastEvent.shift
    /\ selectedShapeIndex = -1
    /\ shapes # << >>
    /\ historyStack # << >>
    /\ Len(Top(historyStack)) = Len(shapes)

-----------------------------------------------------------------------------
\* Invariants of the Shape Set and the interaction state

\* C34: every layer of the Shape Set has at least 3 vertices.
C34_MinimumSize ==
    \A i \in 1 .. Len(shapes) : Len(shapes[i].vertexData) >= 3

\* a delete key has brought the selected layer from 4 vertices down to 3
C34_Witness ==
    /\ lastEvent.type = "keyPressed"
    /\ lastEvent.arg \in {"DELETE", "BACKSPACE"}
    /\ ~lastEvent.shift
    /\ selectedShapeIndex # -1
    /\ Len(shapes[selectedShapeIndex + 1].vertexData) = 3
    /\ historyStack # << >>
    /\ Len(Top(historyStack)) = Len(shapes)
    /\ Len(Top(historyStack)[selectedShapeIndex + 1].vertexData) = 4

\* C35: draggingVertex and draggingShape are never both true.
C35_OneDragAtMost == ~(draggingVertex /\ draggingShape)

\* a press has started a layer drag after an earlier gesture on the one
\* layer of a loaded design
C35_Witness ==
    /\ lastEvent.type = "mousePressed"
    /\ draggingShape
    /\ ~draggingVertex
    /\ currentShipKey # NewBlank
    /\ Len(shapes) = 1
    /\ Len(historyStack) >= 2

\* C36: while add-vertex mode is on, a layer of the Shape Set is selected,
\* no vertex is selected and neither drag flag is set.
C36_AddVertexModeIdle ==
    addingVertexMode =>
        /\ selectedShapeIndex \in 0 .. Len(shapes) - 1
        /\ selectedVertexIndices = << >>
        /\ ~draggingVertex
        /\ ~draggingShape

\* the mode has been turned on during a vertex drag, whose recorded
\* positions are still in the buffer
C36_Witness ==
    /\ lastEvent.type = "toggleAddVertexMode"
    /\ addingVertexMode
    /\ dragVertexInitialPositions # << >>
    /\ historyStack # << >>

-----------------------------------------------------------------------------
\* The Thargoid view

ThargoidChosen == currentShipKey = "Thargoid"

ThargoidInert == shapes = << >> /\ historyStack = << >> /\ selectedShapeIndex = -1

\* C37: while the Thargoid design is chosen the Shape Set and the history
\* are empty and no layer is selected, before and after every step, and no
\* press, drag, release, key, add-layer, style, straighten, undo or
\* add-vertex toggle changes them.
C37_ThargoidInert ==
    [][ /\ ThargoidChosen => ThargoidInert
        /\ ThargoidChosen' => ThargoidInert'
        /\ (ThargoidChosen /\ ~LoadStep) =>
               /\ ThargoidChosen'
               /\ UNCHANGED << shapes, historyStack, selectionVars >> ]_vars

\* Add Shape has been pressed with the Thargoid chosen
C37_Witness ==
    /\ ThargoidChosen
    /\ lastEvent.type = "addNewShape"
    /\ ThargoidInert

-----------------------------------------------------------------------------
\* The drag buffer

\* C38: while draggingVertex is true a layer is selected, vertices are
\* selected, and the initial-position buffer records exactly the selected
\* indices, each a vertex of the selected layer.
C38_DragBufferMatchesSelection ==
    draggingVertex =>
        /\ HasShape(shapes, selectedShapeIndex)
        /\ selectedVertexIndices # << >>
        /\ Len(dragVertexInitialPositions) = Len(selectedVertexIndices)
        /\ \A k \in 1 .. Len(selectedVertexIndices) :
               /\ dragVertexInitialPositions[k].index = selectedVertexIndices[k]
               /\ selectedVertexIndices[k] < Len(shapes[selectedShapeIndex + 1].vertexData)

\* C39: after a drag event with shift held that leaves the axis locked, the
\* dragged geometry is where it was before the drag along the other axis:
\* the dragged vertices of a vertex drag against the initial-position
\* buffer, the vertices of a dragged layer against the snapshot taken at the
\* press.
C39_NoNetMoveAcrossLockedAxis ==
    ( /\ lastEvent.type = "mouseDragged"
      /\ lastEvent.shift
      /\ AxisLocked
      /\ draggingVertex \/ draggingShape
      /\ HasShape(shapes, selectedShapeIndex)
      /\ historyStack # << >>
      /\ Len(Top(historyStack)) = Len(shapes) ) =>
        LET vd == shapes[selectedShapeIndex + 1].vertexData
            was == Top(historyStack)[selectedShapeIndex + 1].vertexData
            inits == dragVertexInitialPositions
            Same(before, after) == IF dragConstrainedAxis = "x"
                                   THEN after.y = before.y
                                   ELSE after.x = before.x
        IN  /\ draggingVertex =>
                   \A k \in 1 .. Len(inits) :
                       inits[k].index < Len(vd) => Same(inits[k], vd[inits[k].index + 1])
            /\ draggingShape =>
                   /\ Len(was) = Len(vd)
                   /\ \A i \in 1 .. Len(vd) : Same(was[i], vd[i])

-----------------------------------------------------------------------------
\* Restorable history

HistoryValid ==
    \A i \in 1 .. Len(historyStack) : ValidShapes(JsonCopyShapes(historyStack[i]))

\* C40: every History Entry passes the validation of undoLastChange, before
\* and after every step, and an undo on a non-empty history restores the
\* latest entry and removes that entry only.
C40_HistoryRestorable ==
    [][ /\ HistoryValid
        /\ HistoryValid'
        /\ (UndoStep /\ historyStack # << >>) =>
               /\ DeepEqual(shapes', Top(historyStack))
               /\ historyStack' = Pop(historyStack) ]_vars

\* an undo has restored a layer whose stroke weight is the 0 that a text
\* without a number gave
C40_Witness ==
    /\ lastEvent.type \in {"undoLastChange", "keyPressed"}
    /\ lastEvent.type = "keyPressed" => lastEvent.text = << "ctrl", "z" >>
    /\ currentShipKey \in CatalogKeys
    /\ Len(shapes) = 1
    /\ shapes[1].strokeW = 0
    /\ shapes[1].strokeWKind = "number"
    /\ selectedShapeIndex = -1

=============================================================================
